---------------------------- MODULE Spec2Model ----------------------------
(***************************************************************************)
(* Verification model of the native telephony layer of the voice agent:    *)
(* the RTP media bridge (rtp-bridge.ts), the VivPhone SIP client           *)
(* (vivphone-client) and the audio transcoder.                             *)
(* Above them: the SIP service, the conversation pipeline and the HTTP API *)
(* that places and ends calls (index.ts).                                  *)
(*                                                                         *)
(* Node.js runs every handler, timer callback and public method to         *)
(* completion on one thread, so each of them is one atomic action here.    *)
(***************************************************************************)
EXTENDS Integers, Sequences, FiniteSets, TLC

VARIABLES
    rtp,          \* [CallIds -> RTPBridge fields]          (rtp-bridge.ts:12-23)
    rtpWire,      \* per bridge: packets handed to socket.send, in order
    sendPending,  \* per bridge: socket.send callbacks not yet invoked
    audioOut,     \* per bridge: 'audio' events emitted, in order
    received,     \* per bridge: datagrams delivered to the 'message' handler
    pushes,       \* per bridge: number of sendAudio calls made (tags the chunks)
    stops,        \* per bridge: number of stop() calls made
    cleared,      \* per bridge: the runs of bytes clearAudioBuffer has discarded
    errors,       \* per bridge: the calls that threw to their caller, in order
    uncaught,     \* an exception escaped a timer callback: the process is gone
    sentBefore,   \* per bridge: packets paced before the window the model explores
    codec,        \* a PCM16 frame taken through the transcoder and back
    sip,          \* [CallIds -> VivPhoneSIPClient fields], one client per call
    sipSent,      \* per client: SIP requests handed to the signaling socket, in order
    sipEvents,    \* per client: events the client emitted, in order
    responses,    \* per client: SIP responses delivered to handleSIPResponse
    api,          \* the HTTP API: activeCall and the POST /api/call requests (index.ts)
    pacer,        \* the clock of bridge 1's pacer: lastTick, the delay it scheduled
    pipeline,     \* one ConversationPipeline with its SarvamTTSService (pipeline.ts)
    service       \* the SIPService and the app's listeners on it, per room

bridgeVars == <<rtp, rtpWire, sendPending, audioOut, errors>>
ghostVars == <<received, pushes, stops, cleared, sentBefore, codec>>
sipVars == <<sip, sipSent, sipEvents, responses>>
appVars == <<api, pacer, pipeline, service>>
vars == <<bridgeVars, ghostVars, uncaught, sipVars, appVars>>

Null == "null"

\* A port that is not set: null and 0 are both falsy in the tests the code
\* makes and both are refused by socket.send
NoPort == 0

CallIds == {1, 2}

-----------------------------------------------------------------------------
(* Bounds of the exploration *)

MaxPushes == 2      \* sendAudio calls per bridge
MaxSent == 3        \* packets handed to the socket per bridge
MaxRx == 2          \* datagrams received per bridge
MaxStops == 2       \* stop() calls per bridge
MaxResponses == 4   \* SIP responses delivered per client
MaxPairs == 1       \* pairs of samples in a frame given to the transcoder
MaxRequests == 2    \* POST /api/call requests received
MaxTurns == 2       \* transcripts the pipeline answers
MaxText == 3        \* text chunks the LLM streams for one answer
MaxAnswers == 2     \* final answers delivered per call placed through the API
MaxTicks == 3       \* pacer ticks whose timing is followed

-----------------------------------------------------------------------------
(* Program constants *)

IntervalMs == 20
ChunkSize == 160
StartupBytes == 480
HeaderSize == 12
MaxAuthAttempts == 3
SeqMask == 65535
MaxInt32 == 2147483647
MinInt32 == -MaxInt32 - 1

\* The carrier's address, hard-coded in the client
ServerIp == "51.195.161.145"

\* config.sip.port
SipPort == 5060

\* config.sip.username, config.sip.password and config.sip.domain
Username == "agent"
Password == "secret"
Domain == "sip.vivphone.example"

\* The ephemeral port the operating system gives bridge c on bind(0)
LocalPortOf(c) == 50000 + c

\* The phone number call c dials
PhoneOf(c) == IF c = 1 THEN "+15550001" ELSE "+15550002"

-----------------------------------------------------------------------------
(* Byte buffers of the send path.                                          *)
(* A mu-law byte is identified by the sendAudio call that produced it and  *)
(* its offset in that call's encoded output; a buffer is a sequence of     *)
(* runs [tag, lo, hi) of such bytes.                                       *)

RunLen(r) == r.hi - r.lo

RECURSIVE BufLen(_)
BufLen(buf) ==
    IF buf = <<>> THEN 0 ELSE RunLen(Head(buf)) + BufLen(Tail(buf))

RECURSIVE BufTake(_, _)
BufTake(buf, n) ==
    IF n <= 0 \/ buf = <<>> THEN <<>>
    ELSE LET r == Head(buf) IN
         IF RunLen(r) <= n
         THEN <<r>> \o BufTake(Tail(buf), n - RunLen(r))
         ELSE << [r EXCEPT !.hi = r.lo + n] >>

RECURSIVE BufDrop(_, _)
BufDrop(buf, n) ==
    IF n <= 0 \/ buf = <<>> THEN buf
    ELSE LET r == Head(buf) IN
         IF RunLen(r) <= n
         THEN BufDrop(Tail(buf), n - RunLen(r))
         ELSE << [r EXCEPT !.lo = r.lo + n] >> \o Tail(buf)

\* Buffer.slice(start, end)
BufferSlice(buf, start, end) == BufTake(BufDrop(buf, start), end - start)

\* Buffer.concat([a, b])
BufferConcat(a, b) == a \o b

\* Buffer.alloc(0)
EmptyBuffer == <<>>

\* The set of bytes (tag, offset) a buffer holds
BufBytes(buf) ==
    UNION { { <<buf[i].tag, k>> : k \in buf[i].lo .. (buf[i].hi - 1) } : i \in 1..Len(buf) }

-----------------------------------------------------------------------------
(* AudioTranscoder (audio-transcoder): the parts the bridge calls *)

\* muLawToPcmTable[i], as the static initialiser computes it
MuLawToPcm(i) ==
    LET mu       == 255 - i                     \* low byte of ~i
        sign     == (mu \div 128) % 2           \* mu & 0x80
        exponent == (mu \div 16) % 8            \* (mu & 0x70) >> 4
        mantissa == mu % 16                     \* mu & 0x0F
        base     == mantissa * (2 ^ (exponent + 3)) + 132
        sample   == IF exponent > 0 THEN base + 2 ^ (exponent + 2) ELSE base
    IN  IF sign # 0 THEN 132 - sample ELSE sample - 132

\* Math.floor(x / 2) for any integer x
FloorHalf(x) == IF x >= 0 THEN x \div 2 ELSE -((1 - x) \div 2)

\* resample8To16 on a sequence of 16-bit samples: each sample followed by the
\* floor of its mean with the next one (with itself for the last)
Resample8To16(pcm8) ==
    [k \in 1..(2 * Len(pcm8)) |->
        LET i       == (k + 1) \div 2
            current == pcm8[i]
            next    == IF i < Len(pcm8) THEN pcm8[i + 1] ELSE current
        IN  IF k % 2 = 1 THEN current ELSE FloorHalf(current + next)]

\* muLaw8ToPcm16 on a sequence of mu-law bytes; the result is a sequence of
\* 16-bit samples, two bytes each
MuLaw8ToPcm16(muLaw) ==
    Resample8To16([i \in 1..Len(muLaw) |-> MuLawToPcm(muLaw[i])])

\* The segment number the compression table computes for a biased magnitude
\* of 132..32635: the position of its highest set bit, counted down from
\* bit 14 (7) to bit 7 (0)
SegmentOf(magnitude) ==
    LET above == {e \in 1..7 : magnitude >= 2 ^ (e + 7)}
    IN  IF above = {} THEN 0 ELSE CHOOSE e \in above : \A f \in above : f <= e

\* pcmToMuLawTable[sample + 32768], as the static initialiser computes it
PcmToMuLaw(sample) ==
    LET sign      == IF sample < 0 THEN 128 ELSE 0
        magnitude == IF sample < 0 THEN -sample ELSE sample
        biased    == IF magnitude + 132 > 32635 THEN 32635 ELSE magnitude + 132
        exponent  == SegmentOf(biased)
        mantissa  == (biased \div (2 ^ (exponent + 3))) % 16
    IN  255 - (sign + 16 * exponent + mantissa)     \* ~(...) & 0xFF

\* Math.floor(((sample1 + sample2) / 2) * 0.8): the product is a multiple of
\* 0.2, so the floor is that of the exact value 2 * (sample1 + sample2) / 5
AverageWithGain(sample1, sample2) ==
    LET twice == 2 * (sample1 + sample2)
    IN  IF twice >= 0 THEN twice \div 5 ELSE -((4 - twice) \div 5)

\* Math.max(-32768, Math.min(32767, v))
ClampInt16(v) == IF v < -32768 THEN -32768 ELSE IF v > 32767 THEN 32767 ELSE v

\* pcm16ToMuLaw8 on a sequence of 16-bit samples, with the default gain
Pcm16ToMuLaw8(pcm) ==
    [i \in 1..((Len(pcm)) \div 2) |->
        PcmToMuLaw(ClampInt16(AverageWithGain(pcm[2 * i - 1], pcm[2 * i])))]

\* The transcoder before any frame has been given to it
IdleCodec == [stage |-> "idle", pcmIn |-> <<>>, muLaw |-> <<>>, pcmOut |-> <<>>]

\* Byte length of a PCM16 buffer held as a sequence of samples
PcmByteLength(pcm) == 2 * Len(pcm)

\* An encoder that forgets the 2:1 downsampling
MuLawLengthNoDownsample(len) == len \div 2

\* Number of mu-law bytes pcm16ToMuLaw8 produces for a PCM16 buffer of len bytes
MuLawLengthOf(len) == (len \div 2) \div 2

\* pcm16ToMuLaw8 on the chunk passed to one sendAudio call: the encoded bytes
\* 0 .. targetSamples-1 of that chunk
PcmToMuLaw8(pcm) ==
    IF MuLawLengthOf(pcm.len) = 0 THEN EmptyBuffer
    ELSE << [tag |-> pcm.tag, lo |-> 0, hi |-> MuLawLengthOf(pcm.len)] >>

-----------------------------------------------------------------------------
(* RTPBridge (rtp-bridge.ts) *)

\* Field initialisers and constructor
NewRTPBridge(c) ==
    [ socket         |-> "created",   \* "created" | "bound" | "closed"
      remoteAddress  |-> Null,
      remotePort     |-> NoPort,
      sequenceNumber |-> 0,
      timestamp      |-> 0,
      ssrc           |-> 7000 + c,
      isRunning      |-> FALSE,
      localPort      |-> 0,
      audioBuffer    |-> EmptyBuffer,
      pacerTimer     |-> Null,        \* Null | "armed" | "expired" (a handle that fired)
      packetCount    |-> 0,
      receiveCount   |-> 0 ]

\* Outcome of a bridge method: the bridge after it, the packets it handed to
\* the socket, the 'audio' events it emitted, and whether it threw
Outcome(b, packets, events, threw) ==
    [bridge |-> b, packets |-> packets, events |-> events, threw |-> threw]

\* The wrap taken modulo the mask instead of modulo 2^16
NextSequenceNumberModMask(seq) == (seq + 1) % SeqMask

\* (this.sequenceNumber + 1) & 0xFFFF
NextSequenceNumber(seq) == (seq + 1) % (SeqMask + 1)

\* (this.timestamp + n) & 0xFFFFFFFF for an Int32 timestamp and 0 <= n < 2^31:
\* the bitwise AND yields a signed 32-bit integer
NextTimestamp(ts, n) ==
    IF ts > MaxInt32 - n THEN MinInt32 + (ts - (MaxInt32 - n) - 1) ELSE ts + n

\* writeUInt16BE(value) accepts 0..65535
FitsUInt16(v) == v >= 0 /\ v <= SeqMask

\* writeUInt32BE(value) accepts 0..2^32-1; an Int32 is in range iff it is >= 0
FitsUInt32(v) == v >= 0

\* sendRTPPacket(payload)
SendRTPPacket(b, payload) ==
    IF ~FitsUInt16(b.sequenceNumber) \/ ~FitsUInt32(b.timestamp)
           \/ ~FitsUInt32(b.ssrc)
           \/ b.remotePort = NoPort \/ b.remoteAddress = Null
           \/ b.socket = "closed"
    THEN Outcome(b, <<>>, <<>>, TRUE)
    ELSE Outcome(
           [b EXCEPT !.sequenceNumber = NextSequenceNumber(@),
                     !.timestamp = NextTimestamp(@, BufLen(payload))],
           << [ b0 |-> 128, b1 |-> 0,
                seq |-> b.sequenceNumber, ts |-> b.timestamp, ssrc |-> b.ssrc,
                payload |-> payload,
                length |-> HeaderSize + BufLen(payload),
                port |-> b.remotePort, address |-> b.remoteAddress ] >>,
           <<>>, FALSE)

\* The startup guard of tick
StartupHold(b) == b.packetCount = 0 /\ BufLen(b.audioBuffer) < StartupBytes

\* A tick that sends whatever is buffered, up to one chunk, without waiting
\* for a full chunk
TickShortChunks(b) ==
    IF ~b.isRunning THEN Outcome([b EXCEPT !.pacerTimer = "expired"], <<>>, <<>>, FALSE)
    ELSE IF StartupHold(b) /\ b.audioBuffer = EmptyBuffer
    THEN Outcome([b EXCEPT !.pacerTimer = "armed"], <<>>, <<>>, FALSE)
    ELSE IF BufLen(b.audioBuffer) > 0
    THEN LET chunk == BufferSlice(b.audioBuffer, 0, ChunkSize)
             rest  == BufferSlice(b.audioBuffer, ChunkSize, BufLen(b.audioBuffer))
             sent  == SendRTPPacket([b EXCEPT !.audioBuffer = rest], chunk)
         IN  IF sent.threw
             THEN Outcome([sent.bridge EXCEPT !.pacerTimer = "expired"], <<>>, <<>>, TRUE)
             ELSE Outcome([sent.bridge EXCEPT !.pacerTimer = "armed"],
                          sent.packets, <<>>, FALSE)
    ELSE Outcome([b EXCEPT !.pacerTimer = "armed"], <<>>, <<>>, FALSE)

\* tick, the pacer's timer callback
Tick(b) ==
    IF ~b.isRunning THEN Outcome([b EXCEPT !.pacerTimer = "expired"], <<>>, <<>>, FALSE)
    ELSE IF StartupHold(b)
    THEN Outcome([b EXCEPT !.pacerTimer = "armed"], <<>>, <<>>, FALSE)
    ELSE IF BufLen(b.audioBuffer) >= ChunkSize
    THEN LET chunk == BufferSlice(b.audioBuffer, 0, ChunkSize)
             rest  == BufferSlice(b.audioBuffer, ChunkSize, BufLen(b.audioBuffer))
             sent  == SendRTPPacket([b EXCEPT !.audioBuffer = rest], chunk)
         IN  IF sent.threw
             THEN Outcome([sent.bridge EXCEPT !.pacerTimer = "expired"], <<>>, <<>>, TRUE)
             ELSE Outcome([sent.bridge EXCEPT !.pacerTimer = "armed"],
                          sent.packets, <<>>, FALSE)
    ELSE Outcome([b EXCEPT !.pacerTimer = "armed"], <<>>, <<>>, FALSE)

\* The pacer's clock as startPacer leaves it at time 0 when its first tick
\* is held: lastTick is the time of the start, the next tick is due in 20 ms;
\* now is the time of the latest tick, ticks counts the ticks followed
NewPacer == [now |-> 0, lastTick |-> 0, nextDelay |-> IntervalMs, ticks |-> 0]

\* Math.max(0, x)
AtLeastZero(x) == IF x > 0 THEN x ELSE 0

\* A tick that compensates the drift and moves lastTick when it is held too
TickTimingHeldCompensates(b, t, now) ==
    IF ~b.isRunning \/ Tick(b).threw THEN t
    ELSE LET elapsedMs == now - t.lastTick
             drift     == elapsedMs - IntervalMs
         IN  [t EXCEPT !.lastTick = now,
                       !.nextDelay = AtLeastZero(IntervalMs - drift)]

\* What the tick running at time now does to the pacer's clock t: a held
\* tick re-arms after the fixed interval and leaves lastTick alone, any
\* other tick that re-arms measures the time since lastTick
TickTiming(b, t, now) ==
    IF ~b.isRunning THEN t
    ELSE IF StartupHold(b) THEN [t EXCEPT !.nextDelay = IntervalMs]
    ELSE IF Tick(b).threw THEN t
    ELSE LET elapsedMs == now - t.lastTick
             drift     == elapsedMs - IntervalMs
         IN  [t EXCEPT !.lastTick = now,
                       !.nextDelay = AtLeastZero(IntervalMs - drift)]

\* startPacer(): runs the first tick synchronously
StartPacer(b) ==
    IF b.pacerTimer # Null THEN Outcome(b, <<>>, <<>>, FALSE) ELSE Tick(b)

\* start(), with the bind callback it awaits
Start(b, port) ==
    StartPacer([b EXCEPT !.socket = "bound", !.localPort = port, !.isRunning = TRUE])

\* A setter that records the address and forgets the port
SetRemoteAddressOnly(b, address, port) ==
    [b EXCEPT !.remoteAddress = address]

\* setRemoteDestination(address, port)
SetRemoteDestination(b, address, port) ==
    [b EXCEPT !.remoteAddress = address, !.remotePort = port]

\* A sendAudio that buffers on any running bridge, destination set or not
SendAudioNoDestinationCheck(b, pcm) ==
    IF ~b.isRunning THEN b
    ELSE [b EXCEPT !.audioBuffer = BufferConcat(@, PcmToMuLaw8(pcm))]

\* sendAudio(pcm16)
SendAudio(b, pcm) ==
    IF ~b.isRunning \/ b.remoteAddress = Null \/ b.remotePort = NoPort THEN b
    ELSE [b EXCEPT !.audioBuffer = BufferConcat(@, PcmToMuLaw8(pcm))]

\* A clear that truncates in place and leaves the chunk at the head
ClearAudioBufferKeepHead(b) ==
    [b EXCEPT !.audioBuffer = BufferSlice(@, 0, ChunkSize)]

\* clearAudioBuffer()
ClearAudioBuffer(b) == [b EXCEPT !.audioBuffer = EmptyBuffer]

\* The socket.send completion callback
SendDone(b, err) ==
    IF err THEN b ELSE [b EXCEPT !.packetCount = @ + 1]

\* A stop that closes the socket and leaves the pacer's timeout pending
StopLeavesPacerArmed(b) ==
    LET b1 == [b EXCEPT !.isRunning = FALSE]
    IN  IF b.socket = "closed"
        THEN Outcome(b1, <<>>, <<>>, TRUE)
        ELSE Outcome([b1 EXCEPT !.socket = "closed", !.audioBuffer = EmptyBuffer],
                     <<>>, <<>>, FALSE)

\* stop(): dgram's close() throws ERR_SOCKET_DGRAM_NOT_RUNNING on a socket
\* that is already closed, before the buffer is cleared
Stop(b) ==
    LET b1 == [b EXCEPT !.isRunning = FALSE, !.pacerTimer = Null]
    IN  IF b.socket = "closed"
        THEN Outcome(b1, <<>>, <<>>, TRUE)
        ELSE Outcome([b1 EXCEPT !.socket = "closed", !.audioBuffer = EmptyBuffer],
                     <<>>, <<>>, FALSE)

\* A receive handler that compares the whole second byte, marker bit included
HandleRTPPacketNoMask(b, packet) ==
    IF Len(packet) < HeaderSize THEN Outcome(b, <<>>, <<>>, FALSE)
    ELSE IF packet[2] # 0 THEN Outcome(b, <<>>, <<>>, FALSE)
    ELSE Outcome([b EXCEPT !.receiveCount = @ + 1], <<>>,
                 << MuLaw8ToPcm16(SubSeq(packet, HeaderSize + 1, Len(packet))) >>,
                 FALSE)

\* handleRTPPacket(packet), packet a sequence of bytes
HandleRTPPacket(b, packet) ==
    IF Len(packet) < HeaderSize THEN Outcome(b, <<>>, <<>>, FALSE)
    ELSE IF packet[2] % 128 # 0 THEN Outcome(b, <<>>, <<>>, FALSE)
    ELSE Outcome([b EXCEPT !.receiveCount = @ + 1], <<>>,
                 << MuLaw8ToPcm16(SubSeq(packet, HeaderSize + 1, Len(packet))) >>,
                 FALSE)

-----------------------------------------------------------------------------
(* VivPhoneSIPClient (vivphone-client) *)

\* Field initialisers: no socket, no call, callSequence = 1
NewSIPClient ==
    [ socket        |-> Null,     \* Null | "open" | "closed"
      callSequence  |-> 1,
      active        |-> FALSE,    \* activeCalls.has(callId)
      call          |-> [cseq |-> 0, fromTag |-> Null, authAttempts |-> 0,
                         lastAuthCSeq |-> 0],
      teardownTimer |-> FALSE ]   \* the 500 ms timeout of endCall is pending

\* An emitted event
Event(type, c, statusCode) == [type |-> type, callId |-> c, statusCode |-> statusCode]

\* Where INVITE and BYE are sent: the carrier's address and config.sip.port
ServerAddress == <<ServerIp, SipPort>>

\* A request handed to the signaling socket for destination dest; auth is
\* the sequence of Authorization headers it carries (none or one)
Request(method, cseq, auth, fromTag, toTag, dest) ==
    [method |-> method, cseq |-> cseq, auth |-> auth, fromTag |-> fromTag,
     toTag |-> toTag, dest |-> dest]

\* Outcome of a client method: the client and its bridge after it, the
\* requests it sent and the events it emitted
SipOutcome(cl, b, sent, events) ==
    [client |-> cl, bridge |-> b, sent |-> sent, events |-> events]

\* makeCall(phoneNumber): binds the signaling socket, starts a new bridge,
\* sends the first INVITE with CSeq = callSequence and registers the call
MakeCall(cl, c) ==
    LET fromTag == "from"
    IN  SipOutcome(
          [cl EXCEPT !.socket = "open",
                     !.active = TRUE,
                     !.call = [cseq |-> cl.callSequence, fromTag |-> fromTag,
                               authAttempts |-> 0, lastAuthCSeq |-> 0]],
          Start(NewRTPBridge(c), LocalPortOf(c)).bridge,
          << Request("INVITE", cl.callSequence, <<>>, fromTag, Null, ServerAddress) >>,
          <<>>)

\* The address and port handleSDPResponse reads from a response: the c= line's
\* address, or the carrier's address when there is no c= line, and the
\* m=audio port
SdpTarget(resp) ==
    << IF resp.sdpIp = Null THEN ServerIp ELSE resp.sdpIp, resp.sdpPort >>

\* A handler that configures the destination once and keeps it afterwards
HandleSDPResponseOnce(cl, b, resp) ==
    IF ~cl.active THEN b
    ELSE IF resp.sdpPort # NoPort /\ b.remotePort = NoPort
         THEN SetRemoteDestination(b, SdpTarget(resp)[1], SdpTarget(resp)[2])
         ELSE b

\* handleSDPResponse(response, callId)
HandleSDPResponse(cl, b, resp) ==
    IF ~cl.active THEN b
    ELSE IF resp.sdpPort # NoPort
         THEN SetRemoteDestination(b, SdpTarget(resp)[1], SdpTarget(resp)[2])
         ELSE b

\* An ACK that goes to the carrier's fixed address instead of the response's
\* source
SendACKToServer(cl, resp) ==
    IF ~cl.active THEN <<>>
    ELSE << Request("ACK", cl.call.cseq, <<>>, cl.call.fromTag, resp.toTag,
                    ServerAddress) >>

\* sendACK(callId, response, rinfo): the requests it sends
SendACK(cl, resp) ==
    IF ~cl.active THEN <<>>
    ELSE << Request("ACK", cl.call.cseq, <<>>, cl.call.fromTag, resp.toTag,
                    resp.rinfo) >>

\* crypto.createHash('md5').update(parts joined by ':').digest('hex'): the
\* hash is identified by what was hashed
MD5(parts) == <<"md5", parts>>

\* The request URI sip:<phoneNumber>@<domain>
RequestUri(c) == <<"sip", PhoneOf(c), Domain>>

\* HA1 and HA2 of handleAuthentication
HA1(realm) == MD5(<<Username, realm, Password>>)
HA2(c) == MD5(<<"INVITE", RequestUri(c)>>)

\* A digest that hashes the same nonce count whatever the header announces
DigestHeaderStaleCount(c, realm, nonce, qop, cnonce) ==
    IF qop = "auth"
    THEN [username |-> Username, realm |-> realm, nonce |-> nonce,
          uri |-> RequestUri(c),
          response |-> MD5(<<HA1(realm), nonce, "00000000", cnonce, "auth", HA2(c)>>),
          qop |-> "auth", nc |-> "00000001", cnonce |-> cnonce]
    ELSE [username |-> Username, realm |-> realm, nonce |-> nonce,
          uri |-> RequestUri(c),
          response |-> MD5(<<HA1(realm), nonce, HA2(c)>>),
          qop |-> Null, nc |-> Null, cnonce |-> Null]

\* The Authorization header handleAuthentication builds; cnonce is the hex
\* string of the 8 random bytes it draws
DigestHeader(c, realm, nonce, qop, cnonce) ==
    IF qop = "auth"
    THEN [username |-> Username, realm |-> realm, nonce |-> nonce,
          uri |-> RequestUri(c),
          response |-> MD5(<<HA1(realm), nonce, "00000001", cnonce, "auth", HA2(c)>>),
          qop |-> "auth", nc |-> "00000001", cnonce |-> cnonce]
    ELSE [username |-> Username, realm |-> realm, nonce |-> nonce,
          uri |-> RequestUri(c),
          response |-> MD5(<<HA1(realm), nonce, HA2(c)>>),
          qop |-> Null, nc |-> Null, cnonce |-> Null]

\* handleAuthentication(response, callId, phoneNumber); cnonce is what
\* crypto.randomBytes yields if it is called
HandleAuthentication(cl, b, c, resp, cnonce) ==
    IF ~cl.active THEN SipOutcome(cl, b, <<>>, <<>>)
    ELSE IF ~resp.auth THEN SipOutcome(cl, b, <<>>, <<>>)
    ELSE LET realm == IF resp.realm = Null THEN Domain ELSE resp.realm
             nonce == IF resp.nonce = Null THEN "" ELSE resp.nonce
         IN  SipOutcome(
               [cl EXCEPT !.callSequence = @ + 1, !.call.cseq = cl.callSequence + 1],
               b,
               << Request("INVITE", cl.callSequence + 1,
                          << DigestHeader(c, realm, nonce, resp.qop, cnonce) >>,
                          cl.call.fromTag, Null, ServerAddress) >>,
               <<>>)

\* An endCall that leaves the call registered
EndCallKeepsCall(cl, b, c) ==
    IF ~cl.active THEN SipOutcome(cl, b, <<>>, <<>>)
    ELSE SipOutcome(
           [cl EXCEPT !.callSequence = @ + 1, !.teardownTimer = TRUE],
           b,
           << Request("BYE", cl.callSequence, <<>>, cl.call.fromTag, Null,
                      ServerAddress) >>,
           << Event("ended", c, 0) >>)

\* endCall(callId)
EndCall(cl, b, c) ==
    IF ~cl.active THEN SipOutcome(cl, b, <<>>, <<>>)
    ELSE SipOutcome(
           [cl EXCEPT !.callSequence = @ + 1, !.teardownTimer = TRUE, !.active = FALSE],
           b,
           << Request("BYE", cl.callSequence, <<>>, cl.call.fromTag, Null,
                      ServerAddress) >>,
           << Event("ended", c, 0) >>)

\* A test without the attempt limit
AcceptsChallengeNoLimit(cl, respCSeq) ==
    /\ cl.active
    /\ (cl.call.lastAuthCSeq = 0 \/ respCSeq > cl.call.lastAuthCSeq)

\* A test that allows one attempt too many
AcceptsChallengeOffByOne(cl, respCSeq) ==
    /\ cl.active
    /\ cl.call.authAttempts <= MaxAuthAttempts
    /\ (cl.call.lastAuthCSeq = 0 \/ respCSeq > cl.call.lastAuthCSeq)

\* The test that lets a 401/407 be answered: fewer than 3 attempts so far and
\* a CSeq above the last one answered (lastAuthCSeq unset or 0 is falsy)
AcceptsChallenge(cl, respCSeq) ==
    /\ cl.active
    /\ cl.call.authAttempts < MaxAuthAttempts
    /\ (cl.call.lastAuthCSeq = 0 \/ respCSeq > cl.call.lastAuthCSeq)

\* handleSIPResponse, the 401/407 case
HandleChallenge(cl, b, c, resp, cnonce) ==
    LET ack == SendACK(cl, resp)
    IN  IF AcceptsChallenge(cl, resp.cseq)
        THEN LET r == HandleAuthentication(
                        [cl EXCEPT !.call.authAttempts = @ + 1,
                                   !.call.lastAuthCSeq = resp.cseq], b, c, resp, cnonce)
             IN  [r EXCEPT !.sent = ack \o @]
        ELSE SipOutcome(cl, b, ack, <<>>)

\* A default case that reports the failure and forgets to end the call
HandleOtherStatusNoCleanup(cl, b, c, resp) ==
    IF resp.status >= 300
    THEN SipOutcome(cl, b, <<>>, << Event("failed", c, resp.status) >>)
    ELSE SipOutcome(cl, b, <<>>, <<>>)

\* handleSIPResponse, the default case
HandleOtherStatus(cl, b, c, resp) ==
    IF resp.status >= 300
    THEN LET r == EndCall(cl, b, c)
         IN  [r EXCEPT !.events = << Event("failed", c, resp.status) >> \o @]
    ELSE SipOutcome(cl, b, <<>>, <<>>)

\* handleSIPResponse(response, callId, phoneNumber, rinfo)
HandleSIPResponse(cl, b, c, resp, cnonce) ==
    CASE resp.status = 100 -> SipOutcome(cl, b, <<>>, <<>>)
      [] resp.status = 180 ->
           SipOutcome(cl, HandleSDPResponse(cl, b, resp), <<>>, << Event("ringing", c, 0) >>)
      [] resp.status = 183 ->
           SipOutcome(cl, HandleSDPResponse(cl, b, resp), <<>>, <<>>)
      [] resp.status = 200 ->
           SipOutcome(cl, HandleSDPResponse(cl, b, resp), SendACK(cl, resp),
                      << Event("connected", c, 0) >>)
      [] resp.status = 401 \/ resp.status = 407 -> HandleChallenge(cl, b, c, resp, cnonce)
      [] OTHER -> HandleOtherStatus(cl, b, c, resp)

\* VivPhoneSIPClient.sendAudio(pcm16): every active call's bridge gets it
ClientSendAudio(cl, b, pcm) == IF cl.active THEN SendAudio(b, pcm) ELSE b

\* VivPhoneSIPClient.stopAudio(): every active call's bridge is cleared
ClientStopAudio(cl, b) == IF cl.active THEN ClearAudioBuffer(b) ELSE b

\* DirectSIPDialer.sendAudio(pcm16): every call the dialer holds passes the
\* chunk to its client; a call is held from makeCall on, and a client whose
\* call has ended passes nothing on. The result is the bridges afterwards.
DialerSendAudio(clients, bridges, pcm) ==
    [c \in CallIds |->
        IF clients[c].socket # Null
        THEN ClientSendAudio(clients[c], bridges[c], pcm) ELSE bridges[c]]

\* DirectSIPDialer.stopAudio(): every call the dialer holds clears its bridge
DialerStopAudio(clients, bridges) ==
    [c \in CallIds |->
        IF clients[c].socket # Null
        THEN ClientStopAudio(clients[c], bridges[c]) ELSE bridges[c]]

-----------------------------------------------------------------------------
(* ConversationPipeline (pipeline.ts) and its SarvamTTSService: the answer  *)
(* to one transcript is streamed from the LLM through streamSpeech           *)

\* A new pipeline: not processing, its TTS service neither playing nor asked
\* to stop. at is where the streamSpeech generator stands: "idle" (none
\* running), "text" (awaiting the next text chunk), "sentence" (awaiting the
\* speech of a complete sentence), "rest" (awaiting the speech of the text
\* left when the LLM stream ended); buffered tells whether text is waiting
\* for the end of its sentence. audioChunks counts the 'audioChunk' events
\* emitted, bargeIns the 'bargeIn' events, stoppedAt is audioChunks at the
\* moment stop() was last obeyed during the current answer (-1 if it was not)
NewPipeline ==
    [ isProcessing |-> FALSE,
      isPlaying    |-> FALSE,
      shouldStop   |-> FALSE,
      at           |-> "idle",
      buffered     |-> FALSE,
      audioChunks  |-> 0,
      bargeIns     |-> 0,
      stoppedAt    |-> -1,
      turns        |-> 0,
      text         |-> 0 ]

\* The finally block of streamSpeech, and that of handleTranscript once the
\* for-await loop is over
StreamOver(p) ==
    [p EXCEPT !.isPlaying = FALSE, !.isProcessing = FALSE, !.at = "idle",
              !.buffered = FALSE]

\* A handler without the isProcessing test
HandleTranscriptNoGuard(p) ==
    [p EXCEPT !.isProcessing = TRUE, !.isPlaying = TRUE, !.shouldStop = FALSE,
              !.at = "text", !.buffered = FALSE, !.stoppedAt = -1,
              !.turns = @ + 1, !.text = 0]

\* handleTranscript(transcript): returns at once while an answer is being
\* processed, else starts streamSpeech on the LLM's stream
HandleTranscript(p) ==
    IF p.isProcessing THEN p
    ELSE [p EXCEPT !.isProcessing = TRUE, !.isPlaying = TRUE, !.shouldStop = FALSE,
                   !.at = "text", !.buffered = FALSE, !.stoppedAt = -1,
                   !.turns = @ + 1, !.text = 0]

\* streamSpeech resumes with a text chunk: endsSentence tells whether the
\* buffer now holds a sentence end, more whether text is left behind it
OnTextChunk(p, endsSentence, more) ==
    IF p.shouldStop THEN StreamOver(p)
    ELSE IF endsSentence
         THEN [p EXCEPT !.at = "sentence", !.buffered = more, !.text = @ + 1]
         ELSE [p EXCEPT !.buffered = TRUE, !.text = @ + 1]

\* streamSpeech resumes at the end of the LLM's stream
OnTextEnd(p) ==
    IF p.buffered /\ ~p.shouldStop THEN [p EXCEPT !.at = "rest"] ELSE StreamOver(p)

\* generateSpeech settles: streamSpeech yields the audio and handleTranscript
\* emits 'audioChunk', or the error ends the stream
OnSpeech(p, ok) ==
    IF ~ok THEN StreamOver(p)
    ELSE IF p.at = "sentence"
         THEN [p EXCEPT !.audioChunks = @ + 1, !.at = "text"]
         ELSE StreamOver([p EXCEPT !.audioChunks = @ + 1])

\* SarvamTTSService.stop()
TtsStop(p) ==
    IF p.isPlaying
    THEN [p EXCEPT !.shouldStop = TRUE,
                   !.stoppedAt = IF @ = -1 THEN p.audioChunks ELSE @]
    ELSE p

\* The handler of the STT's 'interim' event
OnInterim(p) ==
    IF p.isPlaying \/ p.isProcessing
    THEN [TtsStop(p) EXCEPT !.bargeIns = @ + 1]
    ELSE p

-----------------------------------------------------------------------------
(* The HTTP API (index.ts): POST /api/call and POST /api/end-call *)

\* The requests the API may be handling; request r places call r and its
\* room is named after it
Requests == CallIds

\* activeCall = null: rooms are numbered from 1
NoCall == 0

\* Module state at start-up: activeCall is null and no request was made.
\* phase is where the handling of a request stands: "none" (no request
\* outstanding), "awaiting" (makeOutboundCall was called, no INVITE yet),
\* "dialed" (the INVITE is out, the phone bridge is connecting), "starting"
\* (the service returned the room, the pipeline is starting), "active"
\* (answered 200), "failed" (answered 500), "ended" (ended by end-call);
\* status is the HTTP status of the last answer, 0 if there is none
NewApi ==
    [ activeCall |-> NoCall,
      phase      |-> [r \in Requests |-> "none"],
      status     |-> [r \in Requests |-> 0],
      asked      |-> 0 ]

\* The handler of POST /api/call up to its first await
CallRequested(a, r, phoneNumber) ==
    IF phoneNumber = Null
    THEN [a EXCEPT !.status[r] = 400]
    ELSE IF a.activeCall # NoCall
    THEN [a EXCEPT !.status[r] = 429]
    ELSE [a EXCEPT !.phase[r] = "awaiting", !.status[r] = 0]

\* The handler of POST /api/call after makeOutboundCall resolved
CallInitiated(a, r) ==
    [a EXCEPT !.activeCall = r, !.phase[r] = "active", !.status[r] = 200]

\* The handler of POST /api/call after makeOutboundCall rejected
CallNotInitiated(a, r) ==
    [a EXCEPT !.activeCall = NoCall, !.phase[r] = "failed", !.status[r] = 500]

\* The handler of POST /api/end-call for the room of request r
CallEnded(a, r) ==
    [a EXCEPT !.activeCall = IF @ = r THEN NoCall ELSE @,
              !.phase[r] = "ended", !.status[r] = 200]

-----------------------------------------------------------------------------
(* SIPService (services/sip/index.ts) and the listeners VoiceAgentApp sets  *)
(* on it. The room of request r is named after it; the dialer's call of     *)
(* that room is call r.                                                     *)

\* A room the service knows nothing of yet. known: sipToRoom maps the call to
\* the room; bridge: bridges maps the room to its LiveKitPhoneBridge;
\* atBridge and atRoom count the endCall invocations awaiting
\* bridge.disconnect() and roomService.deleteRoom(); disconnects, deletes and
\* callEnded count the calls of bridge.disconnect and of
\* roomService.deleteRoom and the 'callEnded' events emitted for the room;
\* greeted counts the calls of pipeline.sayHello()
NewRoom ==
    [ known |-> FALSE, bridge |-> FALSE, atBridge |-> 0, atRoom |-> 0,
      disconnects |-> 0, deletes |-> 0, callEnded |-> 0, greeted |-> 0 ]

\* A new service: no room, and no once('callConnected') listener registered
\* by the app (listening is the set of rooms whose listener is registered)
NewService ==
    [ listening |-> {}, room |-> [r \in Requests |-> NewRoom] ]

\* SIPService.makeOutboundCall up to the await of bridge.connect: the room is
\* created and the call placed and recorded in sipToRoom
RoomDialed(s, r) == [s EXCEPT !.room[r].known = TRUE]

\* bridge.connect resolves: SIPService.makeOutboundCall records the bridge
\* and returns, VoiceAgentApp.makeOutboundCall registers its
\* once('callConnected') listener and awaits pipeline.start
RoomBridged(s, r) ==
    [s EXCEPT !.room[r].bridge = TRUE, !.listening = @ \cup {r}]

\* The dialer emits 'callConnected' for call r: the service re-emits it for
\* the room if sipToRoom knows the call; every once-listener registered is
\* called and removed, and the one of that room calls sayHello
OnCallConnected(s, r) ==
    IF ~s.room[r].known THEN s
    ELSE [s EXCEPT !.listening = {},
                   !.room[r].greeted = IF r \in s.listening THEN @ + 1 ELSE @]

\* k invocations of SIPService.endCall(room r) made in one turn of the event
\* loop, as far as their first await that waits for I/O: dialer.endCall has
\* settled, sipToRoom has lost the call, and each invocation has called
\* bridge.disconnect() if bridges has the room, roomService.deleteRoom if not
ServiceEndCall(s, r, k) ==
    IF k = 0 THEN s
    ELSE IF s.room[r].bridge
    THEN [s EXCEPT !.room[r].known = FALSE,
                   !.room[r].disconnects = @ + k, !.room[r].atBridge = @ + k]
    ELSE [s EXCEPT !.room[r].known = FALSE,
                   !.room[r].deletes = @ + k, !.room[r].atRoom = @ + k]

\* setupDialerEvents: what the service does with the events client r emitted
\* in one turn. 'connected' is re-emitted as 'callConnected'; 'failed' and
\* 'ended' each call endCall(room) if sipToRoom knows the call, which it
\* does until the turn is over
OnDialerEvents(s, r, events) ==
    LET connected == \E i \in 1..Len(events) : events[i].type = "connected"
        over == Cardinality({i \in 1..Len(events) : events[i].type \in {"failed", "ended"}})
        s1 == IF connected THEN OnCallConnected(s, r) ELSE s
    IN  ServiceEndCall(s1, r, IF s.room[r].known THEN over ELSE 0)

\* An invocation of endCall resumes after bridge.disconnect(): it forgets the
\* bridge and calls roomService.deleteRoom
DisconnectDone(s, r) ==
    [s EXCEPT !.room[r].bridge = FALSE, !.room[r].atBridge = @ - 1,
              !.room[r].deletes = @ + 1, !.room[r].atRoom = @ + 1]

\* An invocation of endCall resumes after roomService.deleteRoom: it emits
\* 'callEnded' for the room
RoomDeleted(s, r) ==
    [s EXCEPT !.room[r].atRoom = @ - 1, !.room[r].callEnded = @ + 1]

-----------------------------------------------------------------------------
(* The environment of one bridge: what callers pass and what the network   *)
(* delivers                                                                *)

\* Byte lengths of the PCM16 chunks passed to sendAudio: 80 and 480
\* encoded bytes
PcmLens == {320, 1922}

\* Milliseconds by which the event loop may run a timeout after it is due
Lates == {0, 3, 25}

RemoteDestinations == {<<ServerIp, 40000>>, <<"10.0.0.9", 40002>>}

\* A 12-byte RTP header with the given second byte (marker and payload type)
RtpHeader(b1) == <<128, b1, 0, 1, 0, 0, 0, 160, 0, 0, 0, 9>>

\* Second bytes: PCMU, PCMU with the marker bit, PCMA, dynamic type 96 with marker
SecondBytes == {0, 128, 8, 224}
Payloads == {<<>>, <<255>>, <<0, 127>>}

\* Datagrams the network may deliver: well-formed packets, an empty datagram
\* and a header cut to 11 bytes
Datagrams ==
    { RtpHeader(b1) \o p : b1 \in SecondBytes, p \in Payloads }
        \cup {<<>>, SubSeq(RtpHeader(0), 1, HeaderSize - 1)}

\* Numbers of packets a bridge may have paced before the explored window:
\* none, up to the last 16-bit sequence number, and up to the last timestamp
\* below 2^31 (13421772 * 160 = 2147483520)
PacketsBefore == {0, 65535, 13421772}

\* A running bridge that has paced n packets of ChunkSize bytes, all sent
\* successfully, and has drained its buffer
PacedBridge(c, n) ==
    [ SetRemoteDestination(Start(NewRTPBridge(c), LocalPortOf(c)).bridge,
                           ServerIp, 40000)
        EXCEPT !.sequenceNumber = n % (SeqMask + 1),
               !.timestamp = n * ChunkSize,
               !.packetCount = n ]

\* Applying the outcome r of operation op to bridge c
Apply(c, op, r) ==
    /\ rtp' = [rtp EXCEPT ![c] = r.bridge]
    /\ rtpWire' = [rtpWire EXCEPT ![c] = @ \o r.packets]
    /\ sendPending' = [sendPending EXCEPT ![c] = @ + Len(r.packets)]
    /\ audioOut' = [audioOut EXCEPT ![c] = @ \o r.events]
    /\ errors' = [errors EXCEPT ![c] = IF r.threw THEN Append(@, op) ELSE @]

-----------------------------------------------------------------------------
(* Actions on a bridge *)

RtpStart(c) ==
    /\ ~uncaught
    /\ rtp[c].socket = "created"
    /\ Apply(c, "start", Start(rtp[c], LocalPortOf(c)))
    /\ UNCHANGED <<ghostVars, uncaught, sipVars, appVars>>

RtpSetRemoteDestination(c) ==
    /\ ~uncaught
    /\ \E d \in RemoteDestinations :
         Apply(c, "setRemoteDestination",
               Outcome(SetRemoteDestination(rtp[c], d[1], d[2]), <<>>, <<>>, FALSE))
    /\ UNCHANGED <<ghostVars, uncaught, sipVars, appVars>>

\* sendAudio with the chunk numbered pushes[c] + 1, len bytes long
RtpSendAudioOf(c, len) ==
    /\ ~uncaught
    /\ pushes[c] < MaxPushes
    /\ Apply(c, "sendAudio",
             Outcome(SendAudio(rtp[c], [tag |-> pushes[c] + 1, len |-> len]),
                     <<>>, <<>>, FALSE))
    /\ pushes' = [pushes EXCEPT ![c] = @ + 1]
    /\ UNCHANGED <<received, stops, cleared, sentBefore, codec, uncaught, sipVars, appVars>>

RtpSendAudio(c) == \E len \in PcmLens : RtpSendAudioOf(c, len)

\* The pacer's timeout fires; an exception it throws is uncaught
PacerFires(c) ==
    /\ ~uncaught
    /\ rtp[c].pacerTimer = "armed"
    /\ Len(rtpWire[c]) < MaxSent
    /\ LET r == Tick(rtp[c]) IN
         /\ Apply(c, "tick", [r EXCEPT !.threw = FALSE])
         /\ uncaught' = r.threw
    /\ UNCHANGED <<ghostVars, sipVars>>

\* The same, when the time it happens at is not followed
PacerTick(c) == PacerFires(c) /\ UNCHANGED appVars

\* The pacer's timeout of bridge c fires, late milliseconds after it was due
TimedTickOf(c, late) ==
    /\ pacer.ticks < MaxTicks
    /\ PacerFires(c)
    /\ LET now == pacer.now + pacer.nextDelay + late
       IN  pacer' = [TickTiming(rtp[c], pacer, now) EXCEPT !.now = now, !.ticks = @ + 1]
    /\ UNCHANGED <<api, pipeline, service>>

TimedTick(c) == \E late \in Lates : TimedTickOf(c, late)

\* A socket.send completion callback runs, with or without an error
RtpSendDone(c) ==
    /\ ~uncaught
    /\ sendPending[c] > 0
    /\ \E err \in BOOLEAN : rtp' = [rtp EXCEPT ![c] = SendDone(@, err)]
    /\ sendPending' = [sendPending EXCEPT ![c] = @ - 1]
    /\ UNCHANGED <<rtpWire, audioOut, errors, ghostVars, uncaught, sipVars, appVars>>

RtpClearAudioBuffer(c) ==
    /\ ~uncaught
    /\ Apply(c, "clearAudioBuffer",
             Outcome(ClearAudioBuffer(rtp[c]), <<>>, <<>>, FALSE))
    /\ cleared' = [cleared EXCEPT ![c] = @ \o rtp[c].audioBuffer]
    /\ UNCHANGED <<received, pushes, stops, sentBefore, codec, uncaught, sipVars, appVars>>

RtpStop(c) ==
    /\ ~uncaught
    /\ stops[c] < MaxStops
    /\ Apply(c, "stop", Stop(rtp[c]))
    /\ stops' = [stops EXCEPT ![c] = @ + 1]
    /\ UNCHANGED <<received, pushes, cleared, sentBefore, codec, uncaught, sipVars, appVars>>

\* Datagram d arrives on the bound RTP socket
RtpMessageOf(c, d) ==
    /\ ~uncaught
    /\ rtp[c].socket = "bound"
    /\ received[c] < MaxRx
    /\ Apply(c, "message", HandleRTPPacket(rtp[c], d))
    /\ received' = [received EXCEPT ![c] = @ + 1]
    /\ UNCHANGED <<pushes, stops, cleared, sentBefore, codec, uncaught, sipVars, appVars>>

RtpMessage(c) == \E d \in Datagrams : RtpMessageOf(c, d)

-----------------------------------------------------------------------------
(* One bridge driven through its public interface: the send path *)

InitLogs ==
    /\ rtpWire = [c \in CallIds |-> <<>>]
    /\ sendPending = [c \in CallIds |-> 0]
    /\ audioOut = [c \in CallIds |-> <<>>]
    /\ received = [c \in CallIds |-> 0]
    /\ pushes = [c \in CallIds |-> 0]
    /\ stops = [c \in CallIds |-> 0]
    /\ cleared = [c \in CallIds |-> <<>>]
    /\ errors = [c \in CallIds |-> <<>>]
    /\ uncaught = FALSE

\* Nothing has been observed yet and the transcoder is not under study
InitGhosts ==
    /\ InitLogs
    /\ codec = IdleCodec
    /\ api = NewApi
    /\ pacer = NewPacer
    /\ pipeline = NewPipeline
    /\ service = NewService

\* No SIP client is in use
InitNoSip ==
    /\ sip = [c \in CallIds |-> NewSIPClient]
    /\ sipSent = [c \in CallIds |-> <<>>]
    /\ sipEvents = [c \in CallIds |-> <<>>]
    /\ responses = [c \in CallIds |-> 0]

InitBridge ==
    /\ \E n \in PacketsBefore :
         /\ sentBefore = [c \in CallIds |-> IF c = 1 THEN n ELSE 0]
         /\ rtp = [c \in CallIds |->
                     IF c = 1 /\ n > 0 THEN PacedBridge(c, n) ELSE NewRTPBridge(c)]
    /\ InitGhosts
    /\ InitNoSip

NextBridge ==
    \/ RtpStart(1)
    \/ RtpSetRemoteDestination(1)
    \/ RtpSendAudio(1)
    \/ PacerTick(1)
    \/ RtpSendDone(1)
    \/ RtpClearAudioBuffer(1)
    \/ RtpStop(1)

SpecBridge == InitBridge /\ [][NextBridge]_vars

\* Node fires a pending timeout: an armed pacer tick does run
FairBridge == SpecBridge /\ WF_vars(PacerTick(1))

-----------------------------------------------------------------------------
(* One running bridge with its destination set, the times of its pacer's   *)
(* ticks followed                                                           *)

InitPacer ==
    /\ \E n \in {0, 65535} :
         /\ sentBefore = [c \in CallIds |-> IF c = 1 THEN n ELSE 0]
         /\ rtp = [c \in CallIds |->
                     IF c = 1 THEN PacedBridge(c, n) ELSE NewRTPBridge(c)]
    /\ InitGhosts
    /\ InitNoSip

NextPacer ==
    \/ RtpSendAudio(1)
    \/ TimedTick(1)
    \/ RtpSendDone(1)
    \/ RtpClearAudioBuffer(1)

SpecPacer == InitPacer /\ [][NextPacer]_vars

-----------------------------------------------------------------------------
(* One bridge receiving datagrams while it is being used *)

InitReceive ==
    /\ sentBefore = [c \in CallIds |-> 0]
    /\ rtp = [c \in CallIds |-> NewRTPBridge(c)]
    /\ InitGhosts
    /\ InitNoSip

NextReceive ==
    \/ RtpStart(1)
    \/ RtpSetRemoteDestination(1)
    \/ RtpSendAudio(1)
    \/ RtpMessage(1)
    \/ RtpStop(1)

SpecReceive == InitReceive /\ [][NextReceive]_vars

-----------------------------------------------------------------------------
(* The environment of one SIP client: the carrier's responses *)

\* A response from the carrier's signaling address, with the parts the client
\* parses: status, CSeq, the Digest challenge (realm, nonce, qop), the SDP
\* connection address and audio port, the To tag, and the source it came from
Response(status, cseq, auth, sdpPort, toTag) ==
    [status |-> status, cseq |-> cseq, auth |-> auth,
     realm |-> IF auth THEN "x" ELSE Null, nonce |-> IF auth THEN "y" ELSE Null,
     qop |-> Null,
     sdpIp |-> ServerIp, sdpPort |-> sdpPort, toTag |-> toTag,
     rinfo |-> ServerAddress]

\* CSeq numbers a challenge may carry: 0 stands for a response without a
\* parsable CSeq header
ChallengeCSeqs == 0..3

\* Final responses that reject the call
RejectionCodes == {302, 486}

\* A media relay the carrier may name in a final answer, and a second
\* signaling address it may answer from
RelayIp == "10.0.0.9"
EdgeAddress == <<"51.195.161.146", 5062>>

Responses ==
    {Response(100, 1, FALSE, NoPort, Null)}
      \cup {Response(180, 1, FALSE, 40000, "to")}
      \cup {Response(183, 1, FALSE, NoPort, "to"),
            [Response(183, 1, FALSE, 40002, "to") EXCEPT !.sdpIp = Null]}
      \cup {Response(200, 1, FALSE, p, "to") : p \in {NoPort, 40000}}
      \cup {[Response(200, 1, FALSE, 40002, Null)
                EXCEPT !.sdpIp = RelayIp, !.rinfo = EdgeAddress]}
      \cup {Response(401, n, TRUE, NoPort, "to") : n \in ChallengeCSeqs}
      \cup {[Response(407, 2, TRUE, NoPort, "to") EXCEPT !.qop = "auth"],
            [Response(401, 4, TRUE, NoPort, "to")
                EXCEPT !.qop = "auth-int", !.realm = Null],
            Response(401, 1, FALSE, NoPort, "to")}
      \cup {Response(s, 1, FALSE, NoPort, "to") : s \in RejectionCodes}

\* The final answers followed at the level of the API: the callee answers,
\* or is busy
FinalAnswers == {Response(200, 1, FALSE, 40000, "to"), Response(486, 1, FALSE, NoPort, "to")}

\* Hex strings crypto.randomBytes(8) may yield
Cnonces == {"0a1b2c3d4e5f6071", "8899aabbccddeeff"}

\* What the random source yields while resp is handled: it is asked only
\* for a challenge with qop=auth
DrawsFor(resp) == IF resp.auth /\ resp.qop = "auth" THEN Cnonces ELSE {Null}

IsChallenge(resp) == resp.status = 401 \/ resp.status = 407

\* Applying the outcome r of a client method to client c
ApplySip(c, r) ==
    /\ sip' = [sip EXCEPT ![c] = r.client]
    /\ rtp' = [rtp EXCEPT ![c] = r.bridge]
    /\ sipSent' = [sipSent EXCEPT ![c] = @ \o r.sent]
    /\ sipEvents' = [sipEvents EXCEPT ![c] = @ \o r.events]

-----------------------------------------------------------------------------
(* Actions on a SIP client *)

\* DirectSIPDialer.makeCall: a new client, one makeCall on it
SipMakeCall(c) ==
    /\ ~uncaught
    /\ sip[c].socket = Null
    /\ ApplySip(c, MakeCall(sip[c], c))
    /\ UNCHANGED <<rtpWire, sendPending, audioOut, errors, ghostVars, uncaught, responses, appVars>>

\* Response resp arrives on the signaling socket, which delivers until
\* closed; cnonce is what the random source yields during its handling
SipResponseWith(c, resp, cnonce) ==
    /\ ~uncaught
    /\ sip[c].socket = "open"
    /\ responses[c] < MaxResponses
    /\ ApplySip(c, HandleSIPResponse(sip[c], rtp[c], c, resp, cnonce))
    /\ responses' = [responses EXCEPT ![c] = @ + 1]
    /\ UNCHANGED <<rtpWire, sendPending, audioOut, errors, ghostVars, uncaught, appVars>>

SipResponseOf(c, resp) == \E cnonce \in DrawsFor(resp) : SipResponseWith(c, resp, cnonce)

SipResponse(c) == \E resp \in Responses : SipResponseOf(c, resp)

\* The dialer ends the call
SipEndCall(c) ==
    /\ ~uncaught
    /\ sip[c].socket # Null
    /\ ApplySip(c, EndCall(sip[c], rtp[c], c))
    /\ UNCHANGED <<rtpWire, sendPending, audioOut, errors, ghostVars, uncaught, responses, appVars>>

\* The timeout set by endCall fires: stop the bridge, close the signaling
\* socket; an exception thrown here is uncaught
SipTeardownTimer(c) ==
    /\ ~uncaught
    /\ sip[c].teardownTimer
    /\ LET r == Stop(rtp[c]) IN
         /\ rtp' = [rtp EXCEPT ![c] = r.bridge]
         /\ uncaught' = (r.threw \/ sip[c].socket = "closed")
         /\ sip' = [sip EXCEPT ![c] = [@ EXCEPT !.teardownTimer = FALSE,
                                                !.socket = IF r.threw THEN @ ELSE "closed"]]
    /\ stops' = [stops EXCEPT ![c] = @ + 1]
    /\ UNCHANGED <<rtpWire, sendPending, audioOut, errors, received, pushes, cleared,
                   sentBefore, codec, sipSent, sipEvents, responses, appVars>>

-----------------------------------------------------------------------------
(* One call placed through one SIP client, with its bridge *)

InitSip ==
    /\ sentBefore = [c \in CallIds |-> 0]
    /\ rtp = [c \in CallIds |-> NewRTPBridge(c)]
    /\ InitGhosts
    /\ InitNoSip

NextSip ==
    \/ SipMakeCall(1)
    \/ SipResponse(1)
    \/ SipEndCall(1)
    \/ SipTeardownTimer(1)
    \/ PacerTick(1)

SpecSip == InitSip /\ [][NextSip]_vars

\* Node fires a pending timeout: the teardown timer of endCall does run
FairSip == SpecSip /\ WF_vars(SipTeardownTimer(1))

-----------------------------------------------------------------------------
(* Two calls placed through one SIPService and its DirectSIPDialer: each    *)
(* call has its own client, bridge and room bridge                          *)

\* The RTP port the carrier assigned to call c
CarrierPortOf(c) == 40000 + 2 * (c - 1)

\* Call c right after makeCall
Placed(c) == MakeCall(NewSIPClient, c)

\* Call c after the carrier's 200 OK to its INVITE, which names the RTP port
\* of the call: the outcome of handling that response
Answered(c) ==
    HandleSIPResponse(Placed(c).client, Placed(c).bridge, c,
                      Response(200, 1, FALSE, CarrierPortOf(c), "to"), Null)

\* The room bridge of call a emits a chunk of len bytes: SIPService passes
\* it to the dialer
RoomAudioOf(a, len) ==
    /\ ~uncaught
    /\ sip[a].active
    /\ pushes[a] < MaxPushes
    /\ rtp' = DialerSendAudio(sip, rtp, [tag |-> pushes[a] + 1, len |-> len])
    /\ pushes' = [pushes EXCEPT ![a] = @ + 1]
    /\ UNCHANGED <<rtpWire, sendPending, audioOut, errors, received, stops, cleared,
                   sentBefore, codec, uncaught, sipVars, appVars>>

RoomAudio(a) == \E len \in PcmLens : RoomAudioOf(a, len)

\* The pipeline of call a detects a barge-in: SIPService.stopAudio()
BargeIn(a) ==
    /\ ~uncaught
    /\ sip[a].active
    /\ rtp' = DialerStopAudio(sip, rtp)
    /\ cleared' = [c \in CallIds |->
                     IF rtp'[c].audioBuffer # rtp[c].audioBuffer
                     THEN cleared[c] \o rtp[c].audioBuffer ELSE cleared[c]]
    /\ UNCHANGED <<rtpWire, sendPending, audioOut, errors, received, pushes, stops,
                   sentBefore, codec, uncaught, sipVars, appVars>>

\* Both calls were placed and answered, each with its own RTP port
InitDialer ==
    /\ sentBefore = [c \in CallIds |-> 0]
    /\ rtp = [c \in CallIds |-> Answered(c).bridge]
    /\ InitGhosts
    /\ sip = [c \in CallIds |-> Answered(c).client]
    /\ sipSent = [c \in CallIds |-> Placed(c).sent \o Answered(c).sent]
    /\ sipEvents = [c \in CallIds |-> Answered(c).events]
    /\ responses = [c \in CallIds |-> 1]

NextDialer ==
    \/ RoomAudio(1)
    \/ BargeIn(1)
    \/ PacerTick(1)
    \/ PacerTick(2)
    \/ RtpSendDone(1)
    \/ RtpSendDone(2)
    \/ SipEndCall(2)
    \/ SipTeardownTimer(2)

SpecDialer == InitDialer /\ [][NextDialer]_vars

-----------------------------------------------------------------------------
(* The HTTP API serving POST /api/call and POST /api/end-call requests; a   *)
(* handler runs to its next await, and what it awaits completes later       *)

\* Everything but the API, the service and the SIP clients stays as it is
ApiFrame ==
    UNCHANGED <<rtpWire, sendPending, audioOut, errors, ghostVars, uncaught, pacer, pipeline>>

\* POST /api/call arrives with or without a phone number; the handler runs
\* up to the await of makeOutboundCall
ApiCallOf(r, phoneNumber) ==
    /\ ~uncaught
    /\ api.phase[r] = "none"
    /\ api.asked < MaxRequests
    /\ api' = [CallRequested(api, r, phoneNumber) EXCEPT !.asked = @ + 1]
    /\ UNCHANGED <<rtp, sipVars, service>>
    /\ ApiFrame

ApiCall(r) == \E phoneNumber \in {Null, PhoneOf(r)} : ApiCallOf(r, phoneNumber)

\* makeOutboundCall gets as far as the dialer: a new client places the call,
\* the service records it and starts connecting the phone bridge
ApiCallDialed(r) ==
    /\ ~uncaught
    /\ api.phase[r] = "awaiting"
    /\ ApplySip(r, MakeCall(NewSIPClient, r))
    /\ api' = [api EXCEPT !.phase[r] = "dialed"]
    /\ service' = RoomDialed(service, r)
    /\ UNCHANGED responses
    /\ ApiFrame

\* The phone bridge is connected: the service returns the room name and the
\* app registers its listener and starts the pipeline
ApiCallBridged(r) ==
    /\ ~uncaught
    /\ api.phase[r] = "dialed"
    /\ api' = [api EXCEPT !.phase[r] = "starting"]
    /\ service' = RoomBridged(service, r)
    /\ UNCHANGED <<rtp, sipVars>>
    /\ ApiFrame

\* makeOutboundCall resolves with the room name
ApiCallInitiated(r) ==
    /\ ~uncaught
    /\ api.phase[r] = "starting"
    /\ api' = CallInitiated(api, r)
    /\ UNCHANGED <<rtp, sipVars, service>>
    /\ ApiFrame

\* makeOutboundCall rejects: one of the steps it awaits failed
ApiCallNotInitiated(r) ==
    /\ ~uncaught
    /\ api.phase[r] \in {"awaiting", "dialed", "starting"}
    /\ api' = CallNotInitiated(api, r)
    /\ UNCHANGED <<rtp, sipVars, service>>
    /\ ApiFrame

\* POST /api/end-call for the room of request r, known to the caller from
\* the 200 answer: the pipeline is stopped, its 'stopped' handler calls
\* deleteRoom, which ends the SIP call if sipToRoom still has it, and the
\* 'ended' the client emits meanwhile makes the service call endCall again
ApiEndCall(r) ==
    /\ ~uncaught
    /\ api.phase[r] = "active"
    /\ IF service.room[r].known
       THEN LET o == EndCall(sip[r], rtp[r], r)
            IN  /\ ApplySip(r, o)
                /\ service' = ServiceEndCall(service, r, 1 + Len(o.events))
       ELSE /\ UNCHANGED <<rtp, sip, sipSent, sipEvents>>
            /\ service' = ServiceEndCall(service, r, 1)
    /\ api' = CallEnded(api, r)
    /\ UNCHANGED responses
    /\ ApiFrame

\* A final response to the INVITE of request r arrives: the client handles
\* it and the dialer and the service handle the events it emits
ApiSipResponseOf(r, resp) ==
    /\ ~uncaught
    /\ sip[r].socket = "open"
    /\ responses[r] < MaxAnswers
    /\ LET o == HandleSIPResponse(sip[r], rtp[r], r, resp, Null)
       IN  /\ ApplySip(r, o)
           /\ service' = OnDialerEvents(service, r, o.events)
    /\ responses' = [responses EXCEPT ![r] = @ + 1]
    /\ UNCHANGED api
    /\ ApiFrame

ApiSipResponse(r) == \E resp \in FinalAnswers : ApiSipResponseOf(r, resp)

\* bridge.disconnect() settles for one invocation of endCall
ApiDisconnectDone(r) ==
    /\ ~uncaught
    /\ service.room[r].atBridge > 0
    /\ service' = DisconnectDone(service, r)
    /\ UNCHANGED <<rtp, sipVars, api>>
    /\ ApiFrame

\* roomService.deleteRoom settles for one invocation of endCall
ApiRoomDeleted(r) ==
    /\ ~uncaught
    /\ service.room[r].atRoom > 0
    /\ service' = RoomDeleted(service, r)
    /\ UNCHANGED <<rtp, sipVars, api>>
    /\ ApiFrame

InitApi ==
    /\ sentBefore = [c \in CallIds |-> 0]
    /\ rtp = [c \in CallIds |-> NewRTPBridge(c)]
    /\ InitGhosts
    /\ InitNoSip

NextApi ==
    \/ \E r \in Requests : ApiCall(r)
    \/ \E r \in Requests : ApiCallDialed(r)
    \/ \E r \in Requests : ApiCallBridged(r)
    \/ \E r \in Requests : ApiCallInitiated(r)
    \/ \E r \in Requests : ApiCallNotInitiated(r)
    \/ \E r \in Requests : ApiEndCall(r)
    \/ \E r \in Requests : ApiSipResponse(r)
    \/ \E r \in Requests : ApiDisconnectDone(r)
    \/ \E r \in Requests : ApiRoomDeleted(r)
    \/ \E r \in Requests : SipTeardownTimer(r)

SpecApi == InitApi /\ [][NextApi]_vars

\* What a handler awaits settles and pending timeouts fire: a request for a
\* call is answered, teardowns run to their end. Requests and SIP responses
\* come when the outside world sends them
FairApi ==
    /\ SpecApi
    /\ \A r \in Requests :
         /\ WF_vars(ApiCallDialed(r) \/ ApiCallBridged(r) \/ ApiCallInitiated(r)
                       \/ ApiCallNotInitiated(r))
         /\ WF_vars(ApiDisconnectDone(r))
         /\ WF_vars(ApiRoomDeleted(r))
         /\ WF_vars(SipTeardownTimer(r))

-----------------------------------------------------------------------------
(* One conversation pipeline answering transcripts while the caller may     *)
(* interrupt                                                                *)

\* Everything but the pipeline stays as it is
PipelineFrame == UNCHANGED <<bridgeVars, ghostVars, uncaught, sipVars, api, pacer, service>>

\* The STT delivers a final transcript
SttTranscript ==
    /\ pipeline.turns < MaxTurns
    /\ pipeline' = HandleTranscript(pipeline)
    /\ PipelineFrame

\* The LLM streams a text chunk to the generator waiting for it
LlmTextChunk ==
    /\ pipeline.at = "text"
    /\ pipeline.text < MaxText
    /\ \E endsSentence, more \in BOOLEAN :
         pipeline' = OnTextChunk(pipeline, endsSentence, more)
    /\ PipelineFrame

\* The LLM's stream ends
LlmTextEnd ==
    /\ pipeline.at = "text"
    /\ pipeline' = OnTextEnd(pipeline)
    /\ PipelineFrame

\* The speech request in flight is answered, or fails for good
TtsSpeech ==
    /\ pipeline.at \in {"sentence", "rest"}
    /\ \E ok \in BOOLEAN : pipeline' = OnSpeech(pipeline, ok)
    /\ PipelineFrame

\* The STT reports that the caller is speaking
SttInterim ==
    /\ pipeline.bargeIns < MaxTurns
    /\ pipeline' = OnInterim(pipeline)
    /\ PipelineFrame

InitPipeline ==
    /\ sentBefore = [c \in CallIds |-> 0]
    /\ rtp = [c \in CallIds |-> NewRTPBridge(c)]
    /\ InitGhosts
    /\ InitNoSip

NextPipeline ==
    \/ SttTranscript
    \/ LlmTextChunk
    \/ LlmTextEnd
    \/ TtsSpeech
    \/ SttInterim

SpecPipeline == InitPipeline /\ [][NextPipeline]_vars

\* The LLM's stream ends and a speech request settles: the HTTP requests
\* behind them complete, fail or time out
FairPipeline == SpecPipeline /\ WF_vars(LlmTextEnd) /\ WF_vars(TtsSpeech)

-----------------------------------------------------------------------------
(* The transcoder on its own: a PCM16 frame is encoded as the send path does *)
(* and the result decoded as the receive path does                           *)

\* 16-bit samples a frame is made of: the extremes, silence, and quiet, medium
\* and loud values of both signs
SampleValues == {-32768, -16000, -1000, -1, 0, 1, 100, 1000, 16000, 20000, 32767}

\* Frames of 1..MaxPairs pairs of samples
RECURSIVE FramesOf(_)
FramesOf(pairs) ==
    IF pairs = 0 THEN {<<>>}
    ELSE { f \o <<a, b>> : f \in FramesOf(pairs - 1), a \in SampleValues, b \in SampleValues }

Frames == UNION { FramesOf(n) : n \in 1..MaxPairs }

\* AudioTranscoder.pcm16ToMuLaw8(frame)
Encode ==
    /\ codec.stage = "pcm"
    /\ codec' = [codec EXCEPT !.stage = "muLaw", !.muLaw = Pcm16ToMuLaw8(codec.pcmIn)]
    /\ UNCHANGED <<bridgeVars, received, pushes, stops, cleared, sentBefore, uncaught,
                   sipVars, appVars>>

\* AudioTranscoder.muLaw8ToPcm16(encoded)
Decode ==
    /\ codec.stage = "muLaw"
    /\ codec' = [codec EXCEPT !.stage = "decoded", !.pcmOut = MuLaw8ToPcm16(codec.muLaw)]
    /\ UNCHANGED <<bridgeVars, received, pushes, stops, cleared, sentBefore, uncaught,
                   sipVars, appVars>>

InitTranscode ==
    /\ sentBefore = [c \in CallIds |-> 0]
    /\ rtp = [c \in CallIds |-> NewRTPBridge(c)]
    /\ InitLogs
    /\ InitNoSip
    /\ \E frame \in Frames : codec = [IdleCodec EXCEPT !.stage = "pcm", !.pcmIn = frame]
    /\ api = NewApi
    /\ pacer = NewPacer
    /\ pipeline = NewPipeline
    /\ service = NewService

NextTranscode == Encode \/ Decode

SpecTranscode == InitTranscode /\ [][NextTranscode]_vars

-----------------------------------------------------------------------------
(* Properties of the RTP bridge *)

\* C1: every packet handed to the socket carries the sequence number of the
\* packet before it plus one, modulo 65536: the first packet of a bridge
\* carries 0 and the packet after 65535 carries 0.
SequenceNumberStepsByOne ==
    \A c \in CallIds :
      /\ Len(rtpWire[c]) >= 1 =>
           rtpWire[c][1].seq = sentBefore[c] % (SeqMask + 1)
      /\ \A i \in 1..(Len(rtpWire[c]) - 1) :
           rtpWire[c][i + 1].seq =
               IF rtpWire[c][i].seq = SeqMask THEN 0 ELSE rtpWire[c][i].seq + 1

\* C1 witness: a packet numbered 65535 was sent and the next one was sent too
SequenceNumberWrapped ==
    \E i \in 1..(Len(rtpWire[1]) - 1) :
        rtpWire[1][i].seq = SeqMask /\ rtpWire[1][i + 1].seq = 0

\* C2 (as claimed): each packet's timestamp is the previous packet's plus 160
\* modulo 2^32, the stored timestamp stays in 0..2^32-1 (an Int32 is in that
\* range iff it is not negative), and the pacer keeps running past the wrap.
TimestampStepsAndWraps ==
    \A c \in CallIds :
      /\ rtp[c].timestamp >= 0
      /\ ~uncaught
      /\ \A i \in 1..(Len(rtpWire[c]) - 1) :
           rtpWire[c][i + 1].ts = NextTimestamp(rtpWire[c][i].ts, ChunkSize)

\* C3: a datagram shorter than 12 bytes or whose payload type is not 0 emits
\* no 'audio' event and changes nothing in the bridge; any other datagram
\* emits exactly one 'audio' event, after those of earlier datagrams, whose
\* byte length is 4 times the payload length.
ReceiveValidatesAndDecodes ==
    [][\A d \in Datagrams :
         RtpMessageOf(1, d) =>
           IF Len(d) < HeaderSize
           THEN audioOut' = audioOut /\ rtp' = rtp
           ELSE IF d[2] % 128 # 0
           THEN audioOut' = audioOut /\ rtp' = rtp
           ELSE /\ Len(audioOut'[1]) = Len(audioOut[1]) + 1
                /\ SubSeq(audioOut'[1], 1, Len(audioOut[1])) = audioOut[1]
                /\ PcmByteLength(audioOut'[1][Len(audioOut'[1])])
                       = 4 * (Len(d) - HeaderSize)]_vars

\* C3 witness: two datagrams were delivered, one was dropped and one emitted
\* an 8-byte frame for its 2-byte payload
ReceivedOneDroppedOne ==
    /\ received[1] = 2
    /\ Len(audioOut[1]) = 1
    /\ PcmByteLength(audioOut[1][1]) = 8

\* The bytes that have been handed to the socket
WireBytes(c) == UNION { BufBytes(rtpWire[c][i].payload) : i \in 1..Len(rtpWire[c]) }

\* C4: whatever sendAudio calls and pacer ticks surround it, the send buffer
\* is empty when clearAudioBuffer returns, the clear leaves sequence number
\* and timestamp (and the wire) alone, and no byte it discarded is ever
\* transmitted.
ClearDiscardsBufferedAudio ==
    /\ [][RtpClearAudioBuffer(1) =>
            /\ rtp'[1].audioBuffer = <<>>
            /\ rtp'[1].sequenceNumber = rtp[1].sequenceNumber
            /\ rtp'[1].timestamp = rtp[1].timestamp
            /\ rtpWire' = rtpWire]_vars
    /\ [](WireBytes(1) \cap BufBytes(cleared[1]) = {})

\* C4 witness: bytes were discarded by a clear, and a packet made of a later
\* chunk was transmitted after it
SentAfterClear ==
    /\ cleared[1] # <<>>
    /\ \E i \in 1..Len(rtpWire[1]) :
         \A j \in 1..Len(cleared[1]) :
           rtpWire[1][i].payload[1].tag > cleared[1][j].tag

\* What sendAudio must do to the send buffer: the old content stays in front
\* and exactly floor(len / 4) bytes follow it; nothing is transmitted
AppendsQuarter(c, len) ==
    /\ BufLen(rtp'[c].audioBuffer) = BufLen(rtp[c].audioBuffer) + (len \div 4)
    /\ BufTake(rtp'[c].audioBuffer, BufLen(rtp[c].audioBuffer)) = rtp[c].audioBuffer
    /\ rtpWire' = rtpWire
    /\ sendPending' = sendPending

\* Packets are transmitted and sequence number and timestamp advanced by
\* pacer ticks only
OnlyTickTransmits(c) ==
    (\/ rtpWire'[c] # rtpWire[c]
     \/ rtp'[c].sequenceNumber # rtp[c].sequenceNumber
     \/ rtp'[c].timestamp # rtp[c].timestamp) => PacerTick(c)

\* C9 (as claimed): every sendAudio call on a running bridge appends exactly
\* floor(len/4) bytes to the end of the send buffer and transmits nothing;
\* only pacer ticks transmit and advance sequence number and timestamp.
SendAudioAlwaysBuffers ==
    [][/\ \A len \in PcmLens :
            (RtpSendAudioOf(1, len) /\ rtp[1].isRunning) => AppendsQuarter(1, len)
       /\ OnlyTickTransmits(1)]_vars

\* C9 (amended): every sendAudio call on a running bridge whose remote
\* destination has been set appends exactly floor(len/4) bytes to the end of
\* the send buffer and transmits nothing; only pacer ticks transmit and
\* advance sequence number and timestamp.
SendAudioBuffersOnceDestinationSet ==
    [][/\ \A len \in PcmLens :
            (/\ RtpSendAudioOf(1, len)
             /\ rtp[1].isRunning
             /\ rtp[1].remoteAddress # Null
             /\ rtp[1].remotePort # NoPort) => AppendsQuarter(1, len)
       /\ OnlyTickTransmits(1)]_vars

\* C9 witness: two chunks were pushed to a fresh bridge, 80 and 480 bytes are
\* buffered in push order, and nothing has been transmitted
BufferedNothingSent ==
    /\ sentBefore[1] = 0
    /\ pushes[1] = 2
    /\ Len(rtp[1].audioBuffer) = 2
    /\ RunLen(rtp[1].audioBuffer[1]) = 80
    /\ RunLen(rtp[1].audioBuffer[2]) = 480
    /\ rtpWire[1] = <<>>

\* C10 (as claimed): a second stop() completes without error and leaves the
\* bridge as the first one left it: not running, no pacer timer, socket
\* closed, send buffer empty.
StopIsIdempotent ==
    \A c \in CallIds :
      stops[c] >= 2 =>
        /\ \A i \in 1..Len(errors[c]) : errors[c][i] # "stop"
        /\ ~rtp[c].isRunning
        /\ rtp[c].pacerTimer = Null
        /\ rtp[c].socket = "closed"
        /\ rtp[c].audioBuffer = <<>>


\* The runs of bytes of bridge c's send path in the order they leave it: the
\* payloads transmitted, then the buffer
RECURSIVE PayloadsOf(_)
PayloadsOf(packets) ==
    IF packets = <<>> THEN <<>> ELSE Head(packets).payload \o PayloadsOf(Tail(packets))

SendPath(c) == PayloadsOf(rtpWire[c]) \o rtp[c].audioBuffer

\* C34 (as claimed): the send path is FIFO and lossless between clears: the
\* payloads transmitted followed by the bytes still buffered are the bytes
\* sendAudio appended, in call order, less those clearAudioBuffer discarded:
\* no byte is there twice, none is out of order, and none that precedes a
\* transmitted or buffered byte of the same sendAudio call is missing unless
\* it was cleared.
SendPathIsFifoAndLossless ==
    LET path == SendPath(1)
        kept == BufBytes(path)
    IN  /\ Cardinality(kept) = BufLen(path)
        /\ \A i \in 1..(Len(path) - 1) :
             \/ path[i].tag < path[i + 1].tag
             \/ path[i].tag = path[i + 1].tag /\ path[i].hi <= path[i + 1].lo
        /\ \A byte \in kept : \A k \in 0..(byte[2] - 1) :
             <<byte[1], k>> \in kept \cup BufBytes(cleared[1])

-----------------------------------------------------------------------------
(* Properties of the SIP client *)

\* Number of requests of a method among those sent
RECURSIVE CountMethod(_, _)
CountMethod(sent, method) ==
    IF sent = <<>> THEN 0
    ELSE (IF Head(sent).method = method THEN 1 ELSE 0) + CountMethod(Tail(sent), method)

\* Whether an event of one of the given types is among events from..Len(events)
HasEventFrom(events, from, types) ==
    \E i \in from..Len(events) : events[i].type \in types

BridgeStopped(c) ==
    /\ ~rtp[c].isRunning
    /\ rtp[c].pacerTimer = Null
    /\ rtp[c].socket = "closed"

\* C5: whatever 401/407 responses arrive, authAttempts never exceeds 3, at
\* most 4 INVITEs are sent for a call, and once authAttempts is 3 no
\* challenge, whatever its CSeq, makes the client send an INVITE.
AuthAttemptsBounded ==
    /\ [](\A c \in CallIds :
            /\ sip[c].call.authAttempts <= 3
            /\ CountMethod(sipSent[c], "INVITE") <= 4)
    /\ [][\A resp \in Responses :
            (/\ IsChallenge(resp)
             /\ sip[1].call.authAttempts = 3
             /\ SipResponseOf(1, resp))
              => CountMethod(sipSent'[1], "INVITE") = CountMethod(sipSent[1], "INVITE")]_vars

\* C5 witness: three challenges were answered and a fourth one arrived
FourthChallengeArrived ==
    /\ sip[1].call.authAttempts = 3
    /\ CountMethod(sipSent[1], "INVITE") = 4
    /\ CountMethod(sipSent[1], "ACK") = 4
    /\ sipEvents[1] = <<>>

\* A challenge the client does not answer: the limit is used up, or its CSeq
\* is not above that of the last challenge answered
RejectedChallenge(cl, resp) ==
    /\ IsChallenge(resp)
    /\ cl.active
    /\ \/ cl.call.authAttempts >= 3
       \/ (cl.call.lastAuthCSeq # 0 /\ resp.cseq <= cl.call.lastAuthCSeq)

RejectionFailsAndTearsDown ==
    /\ [][\A resp \in Responses :
            (/\ resp.status >= 300
             /\ ~IsChallenge(resp)
             /\ sip[1].active
             /\ SipResponseOf(1, resp))
              => /\ \E i \in (Len(sipEvents[1]) + 1)..Len(sipEvents'[1]) :
                      sipEvents'[1][i] = Event("failed", 1, resp.status)
                 /\ ~sip'[1].active]_vars
    /\ (HasEventFrom(sipEvents[1], 1, {"failed"})
          ~> (BridgeStopped(1) /\ ~sip[1].active))

\* C7 witness: the call was rejected with 486 and its bridge has been stopped
RejectedAndStopped ==
    /\ sipEvents[1] = << Event("failed", 1, 486), Event("ended", 1, 0) >>
    /\ BridgeStopped(1)
    /\ ~sip[1].active

\* C8 (as claimed): once a call has emitted 'ended' or 'failed', no response
\* received afterwards makes it emit 'ringing', 'connected' or 'failed'.
TerminalStatesAbsorbing ==
    [][\A resp \in Responses :
         (/\ HasEventFrom(sipEvents[1], 1, {"ended", "failed"})
          /\ SipResponseOf(1, resp))
           => ~HasEventFrom(sipEvents'[1], Len(sipEvents[1]) + 1,
                            {"ringing", "connected", "failed"})]_vars

-----------------------------------------------------------------------------
(* Properties of the call set-up *)

\* The send target of bridge c
RemoteOf(c) == <<rtp[c].remoteAddress, rtp[c].remotePort>>

\* Responses whose SDP the client looks at
CarriesAnswer(resp) == resp.status \in {180, 183, 200} /\ resp.sdpPort # NoPort

PacketsHaveDestination ==
    \A c \in CallIds :
      /\ \A i \in 1..Len(rtpWire[c]) :
           rtpWire[c][i].address # Null /\ rtpWire[c][i].port # NoPort
      /\ rtp[c].audioBuffer # <<>> =>
           (rtp[c].remoteAddress # Null /\ rtp[c].remotePort # NoPort)

\* C12 witness: a bridge started in the explored window has transmitted a
\* packet and still holds buffered audio
TransmittedWithAudioLeft ==
    /\ sentBefore[1] = 0
    /\ Len(rtpWire[1]) >= 1
    /\ rtp[1].audioBuffer # <<>>
    /\ pushes[1] >= 1

\* The new requests among those sent: everything but the ACKs, which repeat
\* the CSeq of the INVITE they acknowledge
NewRequests(sent) == SelectSeq(sent, LAMBDA r : r.method # "ACK")

\* C13 (as claimed): the initial INVITE, every authenticated INVITE and the
\* BYE of a call each carry a CSeq strictly greater than that of every
\* request sent before them for the call.
CSeqStrictlyIncreasing ==
    \A c \in CallIds :
      LET reqs == NewRequests(sipSent[c])
      IN  \A i, j \in 1..Len(reqs) : i < j => reqs[i].cseq < reqs[j].cseq

\* C14: every 200 OK received while the call is active sets the remote RTP
\* target from its SDP when it has an m=audio port (and leaves it alone
\* otherwise), sends exactly one request, an ACK to the address the response
\* came from carrying the response's To tag, and emits exactly one event,
\* 'connected' with the call id.
OkIsAcknowledgedAndConnects ==
    [][\A resp \in Responses :
         (resp.status = 200 /\ sip[1].active /\ SipResponseOf(1, resp)) =>
           /\ RemoteOf(1)' = IF resp.sdpPort # NoPort THEN SdpTarget(resp)
                                                      ELSE RemoteOf(1)
           /\ Len(sipSent'[1]) = Len(sipSent[1]) + 1
           /\ SubSeq(sipSent'[1], 1, Len(sipSent[1])) = sipSent[1]
           /\ LET ack == sipSent'[1][Len(sipSent'[1])]
              IN  /\ ack.method = "ACK"
                  /\ ack.dest = resp.rinfo
                  /\ ack.toTag = resp.toTag
           /\ sipEvents'[1] = Append(sipEvents[1], Event("connected", 1, 0))]_vars

\* C14 witness: a 200 OK that came from the carrier's second address was
\* acknowledged there, its SDP is the RTP target and the call is connected
OkFromEdgeAcknowledged ==
    /\ sip[1].active
    /\ \E i \in 1..Len(sipSent[1]) :
         sipSent[1][i].method = "ACK" /\ sipSent[1][i].dest = EdgeAddress
    /\ RemoteOf(1) = <<RelayIp, 40002>>
    /\ HasEventFrom(sipEvents[1], 1, {"connected"})

\* A challenge that repeats or precedes the last one the client answered
LateChallenge(cl, resp) ==
    /\ IsChallenge(resp)
    /\ cl.active
    /\ cl.call.authAttempts > 0
    /\ resp.cseq <= cl.call.lastAuthCSeq

\* C23 (as claimed): a 401/407 whose CSeq is not above the CSeq of the last
\* challenge already answered makes the client send an ACK and nothing else:
\* no INVITE is sent, and authAttempts, lastAuthCSeq and the call's cseq stay
\* as they were.
LateChallengeOnlyAcknowledged ==
    [][\A resp \in Responses :
         (LateChallenge(sip[1], resp) /\ SipResponseOf(1, resp)) =>
           /\ sipSent'[1] = sipSent[1] \o SendACK(sip[1], resp)
           /\ Len(sipSent'[1]) = Len(sipSent[1]) + 1
           /\ sipSent'[1][Len(sipSent'[1])].method = "ACK"
           /\ sip'[1].call.authAttempts = sip[1].call.authAttempts
           /\ sip'[1].call.lastAuthCSeq = sip[1].call.lastAuthCSeq
           /\ sip'[1].call.cseq = sip[1].call.cseq]_vars

\* The To tag of the response call c acknowledged last
AcknowledgedToTag(c) ==
    LET acks == {i \in 1..Len(sipSent[c]) : sipSent[c][i].method = "ACK"}
        last == CHOOSE i \in acks : \A j \in acks : j <= i
    IN  sipSent[c][last].toTag

\* C24 (as claimed): on a call whose INVITE was answered by a 200 OK with a
\* To tag, every INVITE, ACK and BYE carries the From tag generated at
\* makeCall, and the BYE sent at teardown carries the To tag of that 200 OK.
DialogTagsFixed ==
    \A c \in CallIds : \A i \in 1..Len(sipSent[c]) :
        /\ sipSent[c][i].fromTag = sipSent[c][1].fromTag
        /\ sipSent[c][i].fromTag # Null
        /\ sipSent[c][i].method = "BYE" =>
              /\ AcknowledgedToTag(c) # Null
              /\ sipSent[c][i].toTag = AcknowledgedToTag(c)

\* Call c has been connected: its client emitted 'connected'
Connected(c) == HasEventFrom(sipEvents[c], 1, {"connected"})

\* C30 (as claimed): 'ringing' is emitted only for a 180 received before the
\* call is connected; a 180 received after the 200 OK emits no event and
\* leaves the call's remote RTP destination as it was.
RingingOnlyBeforeConnected ==
    [][\A resp \in Responses :
         /\ (/\ HasEventFrom(sipEvents'[1], Len(sipEvents[1]) + 1, {"ringing"})
             /\ SipResponseOf(1, resp)) =>
               (resp.status = 180 /\ ~Connected(1))
         /\ (resp.status = 180 /\ Connected(1) /\ SipResponseOf(1, resp)) =>
               /\ sipEvents'[1] = sipEvents[1]
               /\ RemoteOf(1)' = RemoteOf(1)]_vars

-----------------------------------------------------------------------------
(* Properties of the pacing *)

\* Bridge c is running with remote port 40000, as on a connected call
ConnectedTo40000(c) == rtp[c].isRunning /\ rtp[c].remotePort = 40000

\* The send buffer of bridge c holds one encoded 320-byte frame and nothing else
HoldsOneFrame(c) ==
    Len(rtp[c].audioBuffer) = 1 /\ BufLen(rtp[c].audioBuffer) = 320 \div 4

\* The step handed exactly one packet to the socket, 172 bytes long with a
\* 160-byte payload, for port 40000
SendsOnePacketTo40000(c) ==
    /\ Len(rtpWire'[c]) = Len(rtpWire[c]) + 1
    /\ LET p == rtpWire'[c][Len(rtpWire'[c])]
       IN  p.length = 172 /\ BufLen(p.payload) = 160 /\ p.port = 40000

\* Bridge c is in the state the claim's tick starts from: connected to port
\* 40000, one frame buffered, the pacer's timeout pending
FrameAwaitsTick(c) ==
    ConnectedTo40000(c) /\ HoldsOneFrame(c) /\ rtp[c].pacerTimer = "armed"

\* C15 (as claimed): on a connected call with remote port 40000 and an empty
\* send buffer, pushing one 320-byte frame transmits nothing at the push, and
\* the next pacer tick transmits exactly one 172-byte packet (12-byte header,
\* 160-byte payload) to port 40000.
FrameSentAtNextTick ==
    /\ [][(RtpSendAudioOf(1, 320) /\ ConnectedTo40000(1)
              /\ rtp[1].audioBuffer = <<>>) => rtpWire' = rtpWire]_vars
    /\ [](FrameAwaitsTick(1) =>
            LET sent == Tick(rtp[1]).packets
            IN  /\ Len(sent) = 1
                /\ sent[1].length = 172
                /\ BufLen(sent[1].payload) = 160
                /\ sent[1].port = 40000)

\* C15 (amended): on a connected call with remote port 40000 and an empty
\* send buffer, pushing one 320-byte frame transmits nothing at the push and
\* buffers 80 bytes; the next pacer tick transmits nothing either and keeps
\* the 80 bytes; a tick that does transmit sends exactly one 172-byte packet
\* (12-byte header, 160-byte payload) to the remote port.
FrameBufferedUntilChunkComplete ==
    /\ [][(RtpSendAudioOf(1, 320) /\ ConnectedTo40000(1)
              /\ rtp[1].audioBuffer = <<>>)
              => (rtpWire' = rtpWire /\ HoldsOneFrame(1)')]_vars
    /\ [](FrameAwaitsTick(1) =>
            /\ Tick(rtp[1]).packets = <<>>
            /\ Tick(rtp[1]).bridge.audioBuffer = rtp[1].audioBuffer)
    /\ [][(PacerTick(1) /\ ConnectedTo40000(1) /\ rtpWire' # rtpWire)
              => SendsOnePacketTo40000(1)]_vars

\* C15 witness: one 320-byte frame was pushed to a bridge connected to port
\* 40000 that has sent nothing; its 80 bytes wait in the buffer and the
\* pacer's next tick is pending
FrameHeldBack ==
    /\ sentBefore[1] = 0
    /\ pushes[1] = 1
    /\ FrameAwaitsTick(1)
    /\ rtp[1].audioBuffer = << [tag |-> 1, lo |-> 0, hi |-> 80] >>
    /\ rtpWire[1] = <<>>

\* Bridge c has handed its first packet to the socket
FirstPacketHandedOver(c) == sentBefore[c] > 0 \/ rtpWire[c] # <<>>

\* The pacer's next tick of bridge c will run and observe a full chunk
TickObservesChunk(c) ==
    /\ rtp[c].isRunning
    /\ rtp[c].pacerTimer = "armed"
    /\ BufLen(rtp[c].audioBuffer) >= ChunkSize

\* C20 (as claimed): the 480-byte startup hold-off applies only before the
\* first packet: the step that transmits a bridge's first packet is a tick
\* that observes at least 480 buffered bytes, and once the first packet has
\* been handed to the socket no tick that observes at least 160 buffered
\* bytes is held back by the 480-byte threshold, whatever clearAudioBuffer
\* and the send callbacks did in between.
StartupHoldOnlyBeforeFirstPacket ==
    /\ [][(~FirstPacketHandedOver(1) /\ rtpWire'[1] # <<>>)
              => BufLen(rtp[1].audioBuffer) >= StartupBytes]_vars
    /\ []((FirstPacketHandedOver(1) /\ TickObservesChunk(1)) => ~StartupHold(rtp[1]))

\* C21 (as claimed): at every pacer tick that is not held by the startup
\* guard and observes at least 160 buffered bytes, exactly one packet is
\* transmitted: its payload is the first 160 bytes of the buffer, the buffer
\* shrinks by exactly 160 bytes, and its header is 0x80, 0x00, the current
\* sequence number, the current timestamp and the session's SSRC; no tick
\* transmits more than one packet.
TickTransmitsOneChunk ==
    /\ []((TickObservesChunk(1) /\ ~StartupHold(rtp[1])) =>
            LET b == rtp[1]
                r == Tick(b)
            IN  /\ Len(r.packets) = 1
                /\ r.packets[1].payload = BufferSlice(b.audioBuffer, 0, ChunkSize)
                /\ BufLen(r.packets[1].payload) = ChunkSize
                /\ r.bridge.audioBuffer
                      = BufferSlice(b.audioBuffer, ChunkSize, BufLen(b.audioBuffer))
                /\ BufLen(r.bridge.audioBuffer) = BufLen(b.audioBuffer) - ChunkSize
                /\ r.packets[1].b0 = 128
                /\ r.packets[1].b1 = 0
                /\ r.packets[1].seq = b.sequenceNumber
                /\ r.packets[1].ts = b.timestamp
                /\ r.packets[1].ssrc = NewRTPBridge(1).ssrc)
    /\ [][Len(rtpWire'[1]) <= Len(rtpWire[1]) + 1]_vars

\* The pacer's next tick of bridge c will run and observe a partial chunk,
\* after n packets were handed to the socket
Starved(c, n) ==
    /\ rtp[c].isRunning
    /\ rtp[c].pacerTimer = "armed"
    /\ BufLen(rtp[c].audioBuffer) > 0
    /\ BufLen(rtp[c].audioBuffer) < ChunkSize
    /\ Len(rtpWire[c]) = n

\* Bridge c is running with a full chunk buffered, after n packets were
\* handed to the socket
Refilled(c, n) ==
    /\ rtp[c].isRunning
    /\ BufLen(rtp[c].audioBuffer) >= ChunkSize
    /\ Len(rtpWire[c]) = n

\* Bridge c has handed a packet to the socket after the n-th, or the audio
\* that was waiting is no longer to be sent: the bridge was stopped or its
\* buffer was cleared
HealedOrGivenUp(c, n) ==
    \/ Len(rtpWire[c]) > n
    \/ ~rtp[c].isRunning
    \/ (rtp[c].audioBuffer = EmptyBuffer /\ ~uncaught)

CompensatedDelay(elapsed) == AtLeastZero(IntervalMs - (elapsed - IntervalMs))

SendFailures(c) ==
    (sentBefore[c] + Len(rtpWire[c])) - sendPending[c] - rtp[c].packetCount

\* C28 (as claimed): a send failure reported for an RTP packet is never
\* fatal: the callback that reports it leaves the bridge running and its
\* next tick scheduled, and after it every tick that observes at least 160
\* buffered bytes transmits a packet, numbered one above the last packet
\* handed to the socket.
SendFailureIsNotFatal ==
    /\ [][RtpSendDone(1) =>
            /\ rtp'[1].isRunning = rtp[1].isRunning
            /\ rtp'[1].pacerTimer = rtp[1].pacerTimer
            /\ rtp'[1].audioBuffer = rtp[1].audioBuffer
            /\ rtp'[1].sequenceNumber = rtp[1].sequenceNumber]_vars
    /\ []((SendFailures(1) > 0 /\ TickObservesChunk(1) /\ rtpWire[1] # <<>>) =>
            LET r == Tick(rtp[1])
            IN  /\ Len(r.packets) = 1
                /\ r.packets[1].seq
                     = NextSequenceNumber(rtpWire[1][Len(rtpWire[1])].seq)
                /\ r.bridge.pacerTimer = "armed")

-----------------------------------------------------------------------------
(* Properties of the teardown *)

\* Everything call c owns is released: pacer cancelled, RTP socket and
\* signaling socket closed
TornDown(c) == BridgeStopped(c) /\ sip[c].socket = "closed"

\* C16: when an active call is ended a BYE is sent; eventually afterwards the
\* pacer timer is cancelled and the RTP socket and the signaling socket are
\* closed; and from then on no pacer tick is pending, no RTP packet is
\* transmitted and the sockets stay closed.
TeardownReleasesEverything ==
    /\ [][(sip[1].active /\ ~sip'[1].active) =>
            /\ Len(sipSent'[1]) = Len(sipSent[1]) + 1
            /\ sipSent'[1][Len(sipSent'[1])].method = "BYE"]_vars
    /\ (HasEventFrom(sipEvents[1], 1, {"ended"}) ~> TornDown(1))
    /\ [][TornDown(1) =>
            /\ TornDown(1)'
            /\ rtpWire' = rtpWire
            /\ ~PacerTick(1)]_vars

\* C16 witness: a connected call was ended, its BYE is the last request
\* sent, and the bridge and both sockets are released
ConnectedCallTornDown ==
    /\ sipEvents[1] = << Event("connected", 1, 0), Event("ended", 1, 0) >>
    /\ sipSent[1][Len(sipSent[1])].method = "BYE"
    /\ TornDown(1)
    /\ ~sip[1].teardownTimer

-----------------------------------------------------------------------------
(* Properties of concurrent calls *)

\* C17 (as claimed): with calls 1 and 2 both active, audio forwarded from the
\* room bridge of call 1 is appended to the send buffer of call 1 only, and a
\* barge-in for call 1 clears the send buffer of call 1 only: the send
\* buffer, sequence number and timestamp of call 2 are left as they were.
CallsAreIsolated ==
    [][(sip[1].active /\ sip[2].active /\ (RoomAudio(1) \/ BargeIn(1))) =>
          /\ rtp'[2].audioBuffer = rtp[2].audioBuffer
          /\ rtp'[2].sequenceNumber = rtp[2].sequenceNumber
          /\ rtp'[2].timestamp = rtp[2].timestamp]_vars

-----------------------------------------------------------------------------
(* Properties of the digest authentication *)

\* The realm the digest is computed for: the challenge's, or the configured
\* domain when the challenge names none
RealmOf(resp) == IF resp.realm = Null THEN Domain ELSE resp.realm

\* C18: the INVITE resent for an accepted 401/407 challenge carries one
\* Authorization header. If the challenge has qop=auth the header has
\* qop=auth, the cnonce generated while handling this challenge and
\* nc=00000001, and response = MD5(HA1:nonce:nc:cnonce:auth:HA2); if the
\* challenge has no qop the header has no qop, cnonce or nc and
\* response = MD5(HA1:nonce:HA2); HA1 = MD5(username:realm:password) and
\* HA2 = MD5(INVITE:requestURI).
DigestFollowsChallenge ==
    [][\A resp \in Responses : \A cnonce \in DrawsFor(resp) :
         (/\ IsChallenge(resp)
          /\ resp.auth
          /\ AcceptsChallenge(sip[1], resp.cseq)
          /\ SipResponseWith(1, resp, cnonce)) =>
           LET invite == sipSent'[1][Len(sipSent'[1])]
               ha1    == MD5(<<Username, RealmOf(resp), Password>>)
               ha2    == MD5(<<"INVITE", <<"sip", PhoneOf(1), Domain>> >>)
           IN  /\ Len(sipSent'[1]) = Len(sipSent[1]) + 2
               /\ invite.method = "INVITE"
               /\ Len(invite.auth) = 1
               /\ LET h == invite.auth[1]
                  IN  IF resp.qop = "auth"
                      THEN /\ h.qop = "auth"
                           /\ h.cnonce = cnonce
                           /\ cnonce \in Cnonces
                           /\ h.nc = "00000001"
                           /\ h.response =
                                MD5(<<ha1, resp.nonce, h.nc, h.cnonce, "auth", ha2>>)
                      ELSE resp.qop = Null =>
                           /\ h.qop = Null
                           /\ h.cnonce = Null
                           /\ h.nc = Null
                           /\ h.response = MD5(<<ha1, resp.nonce, ha2>>)]_vars

\* C18 witness: one INVITE answering a qop=auth challenge and one answering
\* a challenge without qop have been sent
BothDigestFormsSent ==
    \E i, j \in 1..Len(sipSent[1]) :
        /\ sipSent[1][i].auth # <<>>
        /\ sipSent[1][i].auth[1].qop = "auth"
        /\ sipSent[1][i].auth[1].cnonce \in Cnonces
        /\ sipSent[1][j].auth # <<>>
        /\ sipSent[1][j].auth[1].qop = Null

-----------------------------------------------------------------------------
(* Properties of the transcoder *)

\* The mu-law quantization step at the amplitude of a 16-bit sample: 16 steps
\* to a segment, 8 in the lowest segment and 1024 in the highest
QuantizationStep(sample) ==
    LET magnitude == IF sample < 0 THEN -sample ELSE sample
        biased    == IF magnitude + 132 > 32635 THEN 32635 ELSE magnitude + 132
    IN  2 ^ (SegmentOf(biased) + 3)

\* |a - b|
Distance(a, b) == IF a >= b THEN a - b ELSE b - a

\* C19 (as claimed): every sample of muLaw8ToPcm16(pcm16ToMuLaw8(x)) differs
\* from the sample of x at the same position by no more than the mu-law
\* quantization step at that sample's amplitude.
RoundTripWithinStep ==
    codec.stage = "decoded" =>
      /\ Len(codec.pcmOut) = Len(codec.pcmIn)
      /\ \A k \in 1..Len(codec.pcmIn) :
           Distance(codec.pcmOut[k], codec.pcmIn[k]) <= QuantizationStep(codec.pcmIn[k])

\* The mu-law codeword of negative zero: it decodes to 0, which encodes to
\* the codeword of positive zero
NegativeZero == CHOOSE b \in 0..255 : MuLawToPcm(b) = 0 /\ PcmToMuLaw(0) # b

\* C25 (as claimed): the decode table is the inverse of the encode table: for
\* every mu-law byte except the negative-zero codeword, encoding the decoded
\* value gives the byte back; so it is for every byte of an encoded frame
\* and the sample it is decoded to.
DecodeInvertsEncode ==
    codec.stage = "decoded" =>
      /\ \A b \in (0..255) \ {NegativeZero} : PcmToMuLaw(MuLawToPcm(b)) = b
      /\ \A k \in 1..Len(codec.muLaw) :
           codec.muLaw[k] # NegativeZero =>
               PcmToMuLaw(codec.pcmOut[2 * k - 1]) = codec.muLaw[k]

\* Number of events of a type among those emitted
RECURSIVE CountEvent(_, _)
CountEvent(events, type) ==
    IF events = <<>> THEN 0
    ELSE (IF Head(events).type = type THEN 1 ELSE 0) + CountEvent(Tail(events), type)

\* C31 (as claimed): 'connected' is emitted at most once per call, even when
\* the carrier retransmits the 200 OK; every 200 OK is acknowledged.
ConnectedEmittedOnce ==
    /\ [](CountEvent(sipEvents[1], "connected") <= 1)
    /\ [][\A resp \in Responses :
            (SipResponseOf(1, resp) /\ resp.status = 200 /\ sip[1].active) =>
              CountMethod(sipSent'[1], "ACK") = CountMethod(sipSent[1], "ACK") + 1]_vars

\* Response resp answers an INVITE the client sent for call c: its CSeq is
\* that of a sent INVITE, and a 200 OK answers the latest one, the earlier
\* ones having been challenged
AnswersInvite(c, resp) ==
    /\ \E k \in 1..Len(sipSent[c]) :
         sipSent[c][k].method = "INVITE" /\ sipSent[c][k].cseq = resp.cseq
    /\ resp.status = 200 => resp.cseq = sip[c].call.cseq

\* C32 (as claimed): every ACK carries the CSeq number of the response it
\* acknowledges: a 200, 401 or 407 whose CSeq is n is acknowledged with CSeq
\* n, also when it is a late or duplicate challenge for an earlier INVITE.
AckCarriesResponseCSeq ==
    \A resp \in Responses :
      (sip[1].active /\ AnswersInvite(1, resp) /\ (resp.status = 200 \/ IsChallenge(resp))) =>
        LET ack == SendACK(sip[1], resp)
        IN  /\ Len(ack) = 1
            /\ ack[1].cseq = resp.cseq

\* C33: endCall is idempotent per call: over any sequence of endCall
\* invocations and failure responses at most one BYE is sent, 'ended' is
\* emitted at most once and the bridge's stop() is scheduled, and run, at most
\* once; endCall for a call that is unknown or has ended sends nothing, emits
\* nothing and changes nothing.
EndCallIsIdempotent ==
    /\ [](/\ CountMethod(sipSent[1], "BYE") <= 1
          /\ CountEvent(sipEvents[1], "ended") <= 1
          /\ stops[1] <= 1
          /\ (~sip[1].active =>
                EndCall(sip[1], rtp[1], 1) = SipOutcome(sip[1], rtp[1], <<>>, <<>>)))
    /\ [][(sip'[1].teardownTimer /\ ~sip[1].teardownTimer) =>
            /\ CountMethod(sipSent[1], "BYE") = 0
            /\ stops[1] = 0]_vars

\* The call was ended by endCall, a rejection arrived afterwards on the
\* socket that was still open, and the teardown has run
RejectedAfterEndCall ==
    /\ \E i, j \in 1..Len(sipEvents[1]) :
         i < j /\ sipEvents[1][i].type = "ended" /\ sipEvents[1][j].type = "failed"
    /\ CountMethod(sipSent[1], "BYE") = 1
    /\ stops[1] = 1

\* Bridge b has a remote destination
HasDestination(b) == b.remoteAddress # Null /\ b.remotePort # NoPort

\* sendAudio on bridge b, while it runs, appends to the send buffer
BuffersAudio(b) ==
    b.isRunning =>
      \A len \in PcmLens :
        BufLen(SendAudio(b, [tag |-> 1, len |-> len]).audioBuffer)
          = BufLen(b.audioBuffer) + MuLawLengthOf(len)

\* C38 (as claimed): whenever a call has emitted 'connected', its bridge has
\* a remote destination, so audio passed to sendAudio after 'connected' is
\* buffered for transmission and not discarded.
ConnectedHasDestination ==
    Connected(1) => (HasDestination(rtp[1]) /\ BuffersAudio(rtp[1]))

\* C38 (amended): when a 200 OK is handled for an active call and it carries
\* an m=audio port, or an earlier 180/183/200 did, the call is connected with
\* a remote destination and audio passed to sendAudio while the bridge runs
\* is buffered; a destination once set is never unset. (A call connected by
\* a 200 OK when no response has carried an m=audio port has no destination,
\* and its audio is discarded.)
ConnectedWithMediaPortHasDestination ==
    /\ [][\A resp \in Responses :
            (/\ SipResponseOf(1, resp)
             /\ sip[1].active
             /\ resp.status = 200
             /\ (resp.sdpPort # NoPort \/ HasDestination(rtp[1]))) =>
              /\ Connected(1)'
              /\ HasDestination(rtp'[1])
              /\ BuffersAudio(rtp'[1])]_vars
    /\ [][HasDestination(rtp[1]) => HasDestination(rtp'[1])]_vars

\* The call was connected by a 200 OK without an m=audio port after a
\* provisional response had named the destination
ConnectedOnEarlyMedia ==
    /\ Connected(1)
    /\ rtp[1].remotePort = 40002
    /\ rtp[1].remoteAddress = ServerIp
    /\ rtp[1].isRunning

\* C39 (as claimed): a BYE is sent only for a call that reached Connected:
\* every BYE follows a 'connected' event of the call, and a final response
\* >= 300 handled before any 200 OK sends no BYE and emits 'failed' without
\* 'ended'.
ByeOnlyAfterConnected ==
    /\ [][CountMethod(sipSent'[1], "BYE") > CountMethod(sipSent[1], "BYE") => Connected(1)]_vars
    /\ [][\A resp \in Responses :
            (/\ SipResponseOf(1, resp)
             /\ sip[1].active
             /\ resp.status >= 300 /\ ~IsChallenge(resp)
             /\ ~Connected(1)) =>
              /\ CountMethod(sipSent'[1], "BYE") = 0
              /\ CountEvent(sipEvents'[1], "failed") = 1
              /\ CountEvent(sipEvents'[1], "ended") = 0]_vars

-----------------------------------------------------------------------------
(* Properties of the HTTP API *)

\* The outbound call of request r is in progress: makeOutboundCall was
\* called for it and the call has neither failed nor been ended
InProgress(r) == api.phase[r] \in {"awaiting", "dialed", "starting", "active"}

\* C26 (as claimed): at most one outbound call is in progress at any time,
\* whatever the interleaving of POST /api/call requests, and every request
\* with a phone number made while a call is in progress is answered 429.
OneCallAtATime ==
    /\ [](Cardinality({r \in Requests : InProgress(r)}) <= 1)
    /\ [][\A r \in Requests :
            (ApiCallOf(r, PhoneOf(r)) /\ \E q \in Requests : InProgress(q)) =>
              /\ api'.status[r] = 429
              /\ ~InProgress(r)']_vars

-----------------------------------------------------------------------------
(* Properties of the SIP service and the app's listeners *)

\* The app has set up the pipeline of request r's call: makeOutboundCall has
\* got the room from the service and registered its 'callConnected' listener
PipelineSetUp(r) == api.phase[r] \in {"starting", "active", "ended"}

\* C36 (as claimed): for every outbound call that becomes connected the
\* greeting is triggered exactly once: once the call is connected and the app
\* has set up its pipeline, sayHello has run once for it, whether the 200 OK
\* came before or after SIPService.makeOutboundCall returned and whatever
\* 'callConnected' events other rooms had; and it never runs twice.
GreetedExactlyOnce ==
    \A r \in Requests :
      /\ service.room[r].greeted <= 1
      /\ (Connected(r) /\ PipelineSetUp(r)) => service.room[r].greeted = 1

\* The call that activeCall names is over: its client has ended it, after a
\* rejection or otherwise
ActiveCallOver(r) ==
    /\ api.activeCall = r
    /\ ~sip[r].active
    /\ HasEventFrom(sipEvents[r], 1, {"failed", "ended"})

\* No call is live or being placed
NoCallLive ==
    \A r \in Requests :
      /\ ~sip[r].active
      /\ api.phase[r] \notin {"awaiting", "dialed", "starting"}

\* C37 (as claimed): the one-active-call guard is always eventually released:
\* once the call activeCall names has ended or failed, activeCall stops
\* naming it, and a POST /api/call that arrives when no call is live or being
\* placed is not answered 429.
GuardEventuallyReleased ==
    /\ \A r \in Requests : ActiveCallOver(r) ~> (api.activeCall # r)
    /\ [][\A q \in Requests :
            (ApiCallOf(q, PhoneOf(q)) /\ NoCallLive) => api'.status[q] # 429]_vars

\* C40 (as claimed): the service tears a room down at most once: over any
\* interleaving of the dialer's 'callFailed' and 'callEnded' events and of
\* endCall and deleteRoom calls, bridge.disconnect and roomService.deleteRoom
\* are each invoked at most once for a room and 'callEnded' is emitted at
\* most once for it.
RoomTornDownOnce ==
    \A r \in Requests :
      /\ service.room[r].disconnects <= 1
      /\ service.room[r].deletes <= 1
      /\ service.room[r].callEnded <= 1

-----------------------------------------------------------------------------
(* Properties of the conversation pipeline *)

\* C29 (as claimed): once stop() has been called while streamSpeech is
\* playing, the generator yields no further audio chunk and the pipeline
\* emits no further 'audioChunk' for that answer, even if a speech request
\* was in flight when stop() was called.
StopSilencesStream ==
    pipeline.stoppedAt # -1 => pipeline.audioChunks = pipeline.stoppedAt

=============================================================================
